---------------------------- MODULE Spec2Model ----------------------------
(***************************************************************************)
(* Model of the chat agent: the turn processor (MessageHandler), the       *)
(* termination predicate and graph of ChatWorkflow, and the CLI loop of    *)
(* ChatRunner.                                                             *)
(*                                                                         *)
(* A Python str is a sequence of one-character strings, so that lower(),   *)
(* strip() and the f-string prefixes are computed character by character.  *)
(* Python's None is the value None below, which is no str.                 *)
(***************************************************************************)
EXTENDS Integers, Sequences, FiniteSets, TLC

VARIABLES
    hstart,   \* handler harness: the state the sequence of calls started from
    hprev,    \* the state handed to the latest process_message call
    hstate,   \* the current state (the one returned by the latest call)
    hlast,    \* what the latest process_message call did
    hdec,     \* the latest _should_continue evaluation
    hcalls,   \* process_message calls made so far
    hsets,    \* pending inputs recorded so far
    nOk,      \* completion calls that returned a reply
    nErr,     \* completion calls that raised
    pc,       \* CLI session: position of the runner / the graph
    state,    \* the session state of run_interactive_session
    gstate,   \* the state the running graph invocation holds
    gsteps,   \* chat-node executions of the running invocation
    gcalls,   \* completion calls of the running invocation
    gfails,   \* completion calls of the running invocation that raised
    turns,    \* input lines read so far
    shown,    \* the line _display_response printed last
    lastline, \* the line input() returned last
    invokes,  \* agent.invoke calls made so far
    objs,     \* the state dicts the session has held, by identity
    sid,      \* the dict the session's variable "state" names
    raised,   \* the exception leaving run_interactive_session / ChatRunner()
    printed,  \* the lines run_chat_example's except clauses printed
    env,      \* os.environ: the two API key variables
    venv,     \* os.environ as ChatConfig.validate read it
    vkey,     \* the api_key value validate checked
    ckey,     \* the api_key handed to the completion client
    heap,     \* the Python list objects, by identity
    astate,   \* a state whose transcript and history name lists of the heap
    acall,    \* the latest process_message call on such a state
    acalls,   \* process_message calls made on such states
    asets,    \* pending inputs recorded in such states
    flog,     \* the generate_response calls made on a completion client
    cmax,     \* TypedCache: self._max_size
    cache,    \* TypedCache: self._cache, its items in the dict's order
    clast,    \* the latest operation on the cache and what it did
    cborn,    \* per key, the number of the operation that stored it (0: absent)
    cstatus,  \* per key: never set, stored, evicted or cleared
    cops,     \* operations made on the cache
    rmax,     \* retry_async: max_attempts
    rpc,      \* position of the wrapper
    rattempt, \* the loop variable attempt
    rlast,    \* last_exception
    rlog,     \* the invocations of the wrapped function and the sleeps, in order
    rout,     \* what the wrapper returned or raised
    mpc,      \* managed_resource: position of the async-with statement
    mres,     \* the resource dict
    mobs,     \* the values of active the body has read
    mexc,     \* the exception the body raised / the caller received
    zpc,      \* simple agent: position of the graph
    zstart,   \* the state the graph was invoked with
    zstate,   \* the state the graph holds
    zsteps,   \* reasoning-node executions of the invocation
    plog      \* the Result.map calls made

hvars == <<hstart, hprev, hstate, hlast, hdec, hcalls, hsets, nOk, nErr>>
svars == <<pc, state, gstate, gsteps, gcalls, gfails, turns, shown>>
xvars == <<lastline, invokes, objs, sid, raised, printed>>
evars == <<env, venv, vkey, ckey>>
avars == <<heap, astate, acall, acalls, asets>>
fvars == <<flog>>
cvars == <<cmax, cache, clast, cborn, cstatus, cops>>
rvars == <<rmax, rpc, rattempt, rlast, rlog, rout>>
mvars == <<mpc, mres, mobs, mexc>>
zvars == <<zpc, zstart, zstate, zsteps>>
pvars == <<plog>>
wvars == <<rvars, mvars, zvars, pvars>>
uvars == <<fvars, cvars, wvars>>
vars == <<hvars, svars, xvars, evars, avars, uvars>>

---------------------------------------------------------------------------
(* Bounds of the model.                                                    *)

\* process_message calls and recorded inputs of one handler-harness run.
MaxCalls == 2
MaxSets == 1
\* Input lines read in one CLI session.
MaxTurns == 2
\* Largest max_attempts a function is wrapped with.
MaxAttempts == 3
\* Most reads of the resource made by the body of one async-with block.
MaxReads == 3
\* Most calls of Result.map in one run.
MaxMaps == 2
\* Largest max_size a TypedCache is built with, and operations made on it.
MaxSize == 2
MaxOps == 4
\* Chat-node executions the compiled graph allows in one invocation before
\* invoke raises GraphRecursionError (the graph library's recursion limit,
\* which create_graph leaves at its default; the model uses a small one).
RecursionLimit == 3

---------------------------------------------------------------------------
(* Python values.                                                          *)

None == <<"None">>

Truthy(x) == x # None /\ x # <<>>

UpperChars == <<"A", "B", "C", "D", "E", "F", "G", "H", "I", "J", "K", "L", "M",
                "N", "O", "P", "Q", "R", "S", "T", "U", "V", "W", "X", "Y", "Z">>

LowerChars == <<"a", "b", "c", "d", "e", "f", "g", "h", "i", "j", "k", "l", "m",
                "n", "o", "p", "q", "r", "s", "t", "u", "v", "w", "x", "y", "z">>

LowerChar(c) ==
    IF \E k \in 1..26 : UpperChars[k] = c
    THEN LowerChars[CHOOSE k \in 1..26 : UpperChars[k] = c]
    ELSE c

Lower(s) == [i \in 1..Len(s) |-> LowerChar(s[i])]

Whitespace == {" ", "\t", "\n"}

RECURSIVE LStrip(_)
LStrip(s) == IF s # <<>> /\ Head(s) \in Whitespace THEN LStrip(Tail(s)) ELSE s

RECURSIVE RStrip(_)
RStrip(s) ==
    IF s # <<>> /\ s[Len(s)] \in Whitespace
    THEN RStrip(SubSeq(s, 1, Len(s) - 1))
    ELSE s

Strip(s) == RStrip(LStrip(s))

quit == <<"q", "u", "i", "t">>
exit == <<"e", "x", "i", "t">>
bye == <<"b", "y", "e">>

QuitWords == {quit, exit, bye}

UserPrefix == <<"U", "s", "e", "r", ":", " ">>
AssistantPrefix == <<"A", "s", "s", "i", "s", "t", "a", "n", "t", ":", " ">>
ErrorPrefix == <<"E", "r", "r", "o", "r", ":", " ">>
NoResponse == <<"N", "o", " ", "r", "e", "s", "p", "o", "n", "s", "e">>

ChatMessage(type, content) == [type |-> type, content |-> content]

ChatState(messages, chat_history, user_input, response) ==
    [messages |-> messages, chat_history |-> chat_history,
     user_input |-> user_input, response |-> response]

---------------------------------------------------------------------------
(* The completion service: a call returns a reply text or raises an        *)
(* exception whose str() is the text.                                      *)

hi == <<"h", "i">>
yo == <<"y", "o">>
boom == <<"b", "o", "o", "m">>

Replies == {<<>>, yo}
ErrorTexts == {boom}

Outcomes == [ok : {TRUE}, text : Replies] \cup [ok : {FALSE}, text : ErrorTexts]

---------------------------------------------------------------------------
(* MessageHandler.                                                         *)

\* Variant: the assistant line and record are appended before the user's.
update_state_success_swapped(st, user_input, response_text) ==
    LET messages == st.messages
                      \o <<AssistantPrefix \o response_text, UserPrefix \o user_input>>
        chat_history == st.chat_history
                          \o <<ChatMessage("assistant", response_text),
                               ChatMessage("user", user_input)>>
    IN  ChatState(messages, chat_history, None, response_text)

\* Variant: the pending input is kept and the response left as it was.
update_state_success_keeps_input(st, user_input, response_text) ==
    LET messages == st.messages
                      \o <<UserPrefix \o user_input, AssistantPrefix \o response_text>>
        chat_history == st.chat_history
                          \o <<ChatMessage("user", user_input),
                               ChatMessage("assistant", response_text)>>
    IN  ChatState(messages, chat_history, st.user_input, st.response)

\* Variant: only the assistant's reply is recorded in the structured history.
update_state_success_assistant_only(st, user_input, response_text) ==
    LET messages == st.messages
                      \o <<UserPrefix \o user_input, AssistantPrefix \o response_text>>
        chat_history == Append(st.chat_history,
                               ChatMessage("assistant", response_text))
    IN  ChatState(messages, chat_history, None, response_text)

_update_state_success(st, user_input, response_text) ==
    LET messages == st.messages
                      \o <<UserPrefix \o user_input, AssistantPrefix \o response_text>>
        chat_history == st.chat_history
                          \o <<ChatMessage("user", user_input),
                               ChatMessage("assistant", response_text)>>
    IN  ChatState(messages, chat_history, None, response_text)

\* Variant: the failed input is also recorded in the structured history.
update_state_error_records_user(st, error_message) ==
    LET error_msg == ErrorPrefix \o error_message
        messages == Append(st.messages, error_msg)
    IN  ChatState(messages, Append(st.chat_history, ChatMessage("user", st.user_input)),
                  st.user_input, error_msg)

\* Variant: the transcript is left as it was.
update_state_error_silent(st, error_message) ==
    LET error_msg == ErrorPrefix \o error_message
    IN  ChatState(st.messages, st.chat_history, st.user_input, error_msg)

\* Variant: the pending input is cleared and the response is the bare message.
update_state_error_clears_input(st, error_message) ==
    LET error_msg == ErrorPrefix \o error_message
        messages == Append(st.messages, error_msg)
    IN  ChatState(messages, st.chat_history, None, error_message)

\* Variant: the transcript is restarted with the error line (no copy of the
\* earlier lines).
update_state_error_restarts(st, error_message) ==
    LET error_msg == ErrorPrefix \o error_message
        messages == <<error_msg>>
    IN  ChatState(messages, st.chat_history, st.user_input, error_msg)

_update_state_error(st, error_message) ==
    LET error_msg == ErrorPrefix \o error_message
        messages == Append(st.messages, error_msg)
    IN  ChatState(messages, st.chat_history, st.user_input, error_msg)

\* Variant: only an absent input is skipped ("is None" instead of "not").
CallsCompletionUnlessNone(st) == st.user_input # None

\* Variant: a quit word is not sent to the completion service.
CallsCompletionUnlessQuitWord(st) ==
    Truthy(st.user_input) /\ Lower(st.user_input) \notin {quit, exit, bye}

\* Whether process_message reaches the generate_response call.
CallsCompletion(st) == Truthy(st.user_input)

process_message(st, o) ==
    IF ~CallsCompletion(st)
    THEN st
    ELSE IF o.ok
         THEN _update_state_success(st, st.user_input, o.text)
         ELSE _update_state_error(st, o.text)

---------------------------------------------------------------------------
(* ChatWorkflow.                                                           *)

\* Variant: the input is compared without lower().
should_continue_case_sensitive(st) ==
    IF Truthy(st.user_input) /\ st.user_input \notin QuitWords
    THEN "continue"
    ELSE "end"

\* Variant: only an absent input ends the run ("is not None" instead of truth).
should_continue_unless_none(st) ==
    IF st.user_input # None /\ Lower(st.user_input) \notin QuitWords
    THEN "continue"
    ELSE "end"

\* Variant: the quit words are not looked at.
should_continue_ignores_quit_words(st) ==
    IF Truthy(st.user_input)
    THEN "continue"
    ELSE "end"

_should_continue(st) ==
    IF Truthy(st.user_input) /\ Lower(st.user_input) \notin QuitWords
    THEN "continue"
    ELSE "end"

---------------------------------------------------------------------------
(* ChatConfig and the exceptions that reach run_chat_example.              *)

\* os.environ: each variable is unset (None) or holds a string.
Environment(openrouter, openai) == [openrouter |-> openrouter, openai |-> openai]

\* The environment has not been read yet.
NotRead == [read |-> FALSE]

k1 == <<"k", "1">>
k2 == <<"k", "2">>

Environments ==
    {Environment(a, b) : a \in {None, <<>>, k1}, b \in {None, <<>>, k2}}

\* What the environment is rewritten to while the program runs: both keys
\* removed, or the key moved to the other variable with a new value.
EnvChanges == {Environment(None, None), Environment(<<>>, k2)}

\* Variant: OPENAI_API_KEY is looked up first.
api_key_openai_first(e) == IF Truthy(e.openai) THEN e.openai ELSE e.openrouter

\* os.getenv("OPENROUTER_API_KEY") or os.getenv("OPENAI_API_KEY")
api_key(e) == IF Truthy(e.openrouter) THEN e.openrouter ELSE e.openai

\* Variant: validate accepts every configuration.
validate_accepts_all(e) == TRUE

\* ChatConfig.validate: TRUE when it returns, FALSE when it raises ValueError.
validate(e) == Truthy(api_key(e))

NotSetMessage ==
    <<"O", "P", "E", "N", "R", "O", "U", "T", "E", "R", "_", "A", "P", "I",
      "_", "K", "E", "Y", " ", "o", "r", " ", "O", "P", "E", "N", "A", "I",
      "_", "A", "P", "I", "_", "K", "E", "Y", " ", "e", "n", "v", "i", "r",
      "o", "n", "m", "e", "n", "t", " ", "v", "a", "r", "i", "a", "b", "l",
      "e", " ", "n", "o", "t", " ", "s", "e", "t">>

RecursionMessage ==
    <<"R", "e", "c", "u", "r", "s", "i", "o", "n", " ", "l", "i", "m", "i",
      "t", " ", "r", "e", "a", "c", "h", "e", "d">>

EOFMessage ==
    <<"E", "O", "F", " ", "w", "h", "e", "n", " ", "r", "e", "a", "d", "i",
      "n", "g", " ", "a", " ", "l", "i", "n", "e">>

Exc(cls, msg) == [cls |-> cls, msg |-> msg]

\* No exception is propagating.
NoExc == Exc("none", <<>>)

\* The classes an exception of class cls is an instance of.
Bases(cls) ==
    CASE cls = "ValueError" -> {"ValueError", "Exception", "BaseException"}
      [] cls = "EOFError" -> {"EOFError", "Exception", "BaseException"}
      [] cls = "GraphRecursionError" ->
             {"GraphRecursionError", "RecursionError", "RuntimeError",
              "Exception", "BaseException"}
      [] cls = "KeyboardInterrupt" -> {"KeyboardInterrupt", "BaseException"}

ConfigurationErrorPrefix ==
    <<"C", "o", "n", "f", "i", "g", "u", "r", "a", "t", "i", "o", "n", " ",
      "e", "r", "r", "o", "r", ":", " ">>

UnexpectedErrorPrefix ==
    <<"U", "n", "e", "x", "p", "e", "c", "t", "e", "d", " ", "e", "r", "r",
      "o", "r", ":", " ">>

EndedByUser ==
    <<"\n", "C", "h", "a", "t", " ", "s", "e", "s", "s", "i", "o", "n",
      " ", "e", "n", "d", "e", "d", " ", "b", "y", " ", "u", "s", "e", "r",
      ".">>

\* Variant: the clause for Exception comes first.
except_clauses_exception_first(exc) ==
    IF "Exception" \in Bases(exc.cls)
    THEN [caught |-> TRUE, line |-> UnexpectedErrorPrefix \o exc.msg]
    ELSE IF "KeyboardInterrupt" \in Bases(exc.cls)
         THEN [caught |-> TRUE, line |-> EndedByUser]
         ELSE [caught |-> FALSE, line |-> None]

\* The except clauses of run_chat_example, tried in order.
except_clauses(exc) ==
    IF "ValueError" \in Bases(exc.cls)
    THEN [caught |-> TRUE, line |-> ConfigurationErrorPrefix \o exc.msg]
    ELSE IF "KeyboardInterrupt" \in Bases(exc.cls)
         THEN [caught |-> TRUE, line |-> EndedByUser]
         ELSE IF "Exception" \in Bases(exc.cls)
              THEN [caught |-> TRUE, line |-> UnexpectedErrorPrefix \o exc.msg]
              ELSE [caught |-> FALSE, line |-> None]

---------------------------------------------------------------------------
(* Handler harness: process_message and _should_continue applied to states *)
(* a caller may hand them, the returned state carried forward.             *)

prev == <<"p">>
quits == <<"q", "u", "i", "t", "s">>

ByeVariants ==
    {<<a, b, c>> : a \in {"b", "B"}, b \in {"y", "Y"}, c \in {"e", "E"}}

PendingInputs ==
    {None, <<>>, hi, <<"b", "y">>, quits, <<" ">> \o bye, quit \o <<" ">>,
     quit, <<"Q", "U", "I", "T">>, <<"Q", "u", "i", "t">>,
     exit, <<"E", "x", "i", "t">>, <<"e", "X", "I", "T">>}
      \cup ByeVariants

StartTranscripts == {<<>>, <<prev>>, <<UserPrefix \o hi, AssistantPrefix \o yo>>}

StartHistories ==
    {<<>>, <<ChatMessage("user", prev)>>,
     <<ChatMessage("user", hi), ChatMessage("assistant", yo)>>}

StartResponses == {None, yo}

StartStates ==
    {ChatState(m, h, u, r) : m \in StartTranscripts, h \in StartHistories,
                             u \in PendingInputs, r \in StartResponses}

NextInputs == {<<>>, hi, bye}

NoCall == [done |-> FALSE, called |-> FALSE, ok |-> FALSE, text |-> None]
NoDecision == [done |-> FALSE, input |-> None, dec |-> "none"]

\* ChatRunner._create_initial_state
_create_initial_state == ChatState(<<>>, <<>>, None, None)

\* No process_message call on a state of lists has been made.
NoAliasCall ==
    [done |-> FALSE, arg |-> ChatState(0, 0, None, None),
     ret |-> ChatState(0, 0, None, None), before |-> <<>>,
     called |-> FALSE, ok |-> FALSE, text |-> None]

\* No list has been allocated.
NoLists ==
    /\ heap = <<>>
    /\ astate = ChatState(0, 0, None, None)
    /\ acall = NoAliasCall
    /\ acalls = 0
    /\ asets = 0

\* No completion client has been called directly.
ClientIdle == flog = <<>>

ka == <<"a">>
kb == <<"b">>
kc == <<"c">>
Keys == {ka, kb, kc}

v1 == <<"v", "1">>
v2 == <<"v", "2">>
Values == {v1, v2}

NoOp ==
    [op |-> "none", key |-> None, value |-> None, result |-> None,
     raised |-> NoExc, before |-> <<>>, born |-> [k \in Keys |-> 0]]

\* TypedCache(max_size) has returned.
CacheBuilt(max_size) ==
    /\ cmax = max_size
    /\ cache = <<>>
    /\ clast = NoOp
    /\ cborn = [k \in Keys |-> 0]
    /\ cstatus = [k \in Keys |-> "never"]
    /\ cops = 0

\* A wrapper made by retry_async has not been called.
NoOutcome == [kind |-> "none", value |-> None, exc |-> NoExc, at |-> "none"]

RetryIdle ==
    /\ rmax = 0
    /\ rpc = "idle"
    /\ rattempt = 0
    /\ rlast = NoExc
    /\ rlog = <<>>
    /\ rout = NoOutcome

\* No async-with managed_resource(...) statement has been entered.
NoResource == [name |-> None, created_at |-> 0, active |-> FALSE]

ResourceIdle ==
    /\ mpc = "idle"
    /\ mres = NoResource
    /\ mobs = <<>>
    /\ mexc = NoExc

\* The simple agent graph has not been invoked.
NoAgentState == [messages |-> <<>>, current_task |-> <<>>, completed_tasks |-> <<>>]

SimpleIdle ==
    /\ zpc = "idle"
    /\ zstart = NoAgentState
    /\ zstate = NoAgentState
    /\ zsteps = 0

\* Result.map has not been called.
MapIdle == plog = <<>>

UtilsIdle == RetryIdle /\ ResourceIdle /\ SimpleIdle /\ MapIdle

\* The harnesses of the single components are at rest.
OthersIdle == ClientIdle /\ CacheBuilt(0) /\ UtilsIdle

\* The handler harness before its first call, started from state st.
HandlerAt(st) ==
    /\ hstart = st
    /\ hprev = st
    /\ hstate = st
    /\ hlast = NoCall
    /\ hdec = NoDecision
    /\ hcalls = 0
    /\ hsets = 0
    /\ nOk = 0
    /\ nErr = 0

\* run_interactive_session before its first prompt.
SessionAtStart ==
    /\ pc = "prompt"
    /\ state = _create_initial_state
    /\ gstate = _create_initial_state
    /\ gsteps = 0
    /\ gcalls = 0
    /\ gfails = 0
    /\ turns = 0
    /\ shown = None
    /\ lastline = None
    /\ invokes = 0
    /\ objs = <<_create_initial_state>>
    /\ sid = 1
    /\ raised = NoExc
    /\ printed = <<>>

\* ChatRunner() has returned: validate read environment e and the client was
\* built from it.
ClientBuilt(e) ==
    /\ env = e
    /\ venv = e
    /\ vkey = api_key(e)
    /\ ckey = api_key(e)

KeyedEnvironment == Environment(k1, None)

InitHandler ==
    \E st \in StartStates :
        HandlerAt(st) /\ SessionAtStart /\ ClientBuilt(KeyedEnvironment) /\ NoLists /\ OthersIdle

\* The caller records the next pending input in the state it carries forward.
SetUserInput(u) ==
    /\ hsets < MaxSets
    /\ hstate' = [hstate EXCEPT !.user_input = u]
    /\ hsets' = hsets + 1
    /\ hlast' = NoCall
    /\ hdec' = NoDecision
    /\ UNCHANGED <<hstart, hprev, hcalls, nOk, nErr>>
    /\ UNCHANGED <<svars, xvars, evars, avars, uvars>>

\* One process_message call; o is what the completion service does if called.
ProcessMessage(o) ==
    /\ hcalls < MaxCalls
    /\ hprev' = hstate
    /\ hstate' = process_message(hstate, o)
    /\ hlast' = [done |-> TRUE, called |-> CallsCompletion(hstate),
                 ok |-> o.ok, text |-> o.text]
    /\ hcalls' = hcalls + 1
    /\ nOk' = IF CallsCompletion(hstate) /\ o.ok THEN nOk + 1 ELSE nOk
    /\ nErr' = IF CallsCompletion(hstate) /\ ~o.ok THEN nErr + 1 ELSE nErr
    /\ hdec' = NoDecision
    /\ UNCHANGED <<hstart, hsets>>
    /\ UNCHANGED <<svars, xvars, evars, avars, uvars>>

\* One _should_continue evaluation on the current state.
ShouldContinue ==
    /\ ~hdec.done
    /\ hdec' = [done |-> TRUE, input |-> hstate.user_input,
                dec |-> _should_continue(hstate)]
    /\ UNCHANGED <<hstart, hprev, hstate, hlast, hcalls, hsets, nOk, nErr>>
    /\ UNCHANGED <<svars, xvars, evars, avars, uvars>>

HNext ==
    \/ \E u \in NextInputs : SetUserInput(u)
    \/ \E o \in Outcomes : ProcessMessage(o)
    \/ ShouldContinue

SpecHandler == InitHandler /\ [][HNext]_vars

---------------------------------------------------------------------------
(* The CLI session: run_interactive_session driving the compiled graph     *)
(* (entry node chat; conditional edge continue -> chat, end -> END).       *)

Lines ==
    {<<>>, <<" ">>, hi, <<" ">> \o hi, <<"b", "y">>, <<"B", "y", "e">>,
     <<" ">> \o quit \o <<"\t">>, exit}

\* Variant: the response of the stored state is reset as well.
process_input_store_resets_response(dicts, id, user_input) ==
    [dicts EXCEPT ![id].user_input = user_input, ![id].response = None]

\* _process_input, state["user_input"] = user_input: the dict the caller
\* holds is written in place.
_process_input_store(dicts, id, user_input) ==
    [dicts EXCEPT ![id].user_input = user_input]

\* Variant: only an absent response is replaced ("is None" instead of "or").
display_response_unless_none(st) ==
    AssistantPrefix \o (IF st.response # None THEN st.response ELSE NoResponse)

_display_response(st) ==
    AssistantPrefix \o (IF Truthy(st.response) THEN st.response ELSE NoResponse)

\* input() returns a line that is a quit word: the loop breaks.
ReadQuit(line) ==
    /\ pc = "prompt"
    /\ turns < MaxTurns
    /\ Lower(Strip(line)) \in QuitWords
    /\ pc' = "done"
    /\ turns' = turns + 1
    /\ lastline' = line
    /\ UNCHANGED <<state, gstate, gsteps, gcalls, gfails, shown>>
    /\ UNCHANGED <<invokes, objs, sid, raised, printed>>
    /\ UNCHANGED <<hvars, evars, avars, uvars>>

\* input() returns any other line: _process_input records it and invokes
\* the graph, which starts at its entry node.
ReadInput(line) ==
    /\ pc = "prompt"
    /\ turns < MaxTurns
    /\ Lower(Strip(line)) \notin QuitWords
    /\ lastline' = line
    /\ objs' = _process_input_store(objs, sid, Strip(line))
    /\ state' = objs'[sid]
    /\ invokes' = invokes + 1
    /\ gstate' = state'
    /\ gsteps' = 0
    /\ gcalls' = 0
    /\ gfails' = 0
    /\ pc' = "chat"
    /\ turns' = turns + 1
    /\ UNCHANGED <<shown, sid, raised, printed>>
    /\ UNCHANGED <<hvars, evars, avars, uvars>>

\* The chat node: _chat_node runs process_message on the graph's state.
ChatNode(o) ==
    /\ pc = "chat"
    /\ gstate' = process_message(gstate, o)
    /\ gsteps' = gsteps + 1
    /\ gcalls' = IF CallsCompletion(gstate) THEN gcalls + 1 ELSE gcalls
    /\ gfails' = IF CallsCompletion(gstate) /\ ~o.ok THEN gfails + 1 ELSE gfails
    /\ pc' = "route"
    /\ UNCHANGED <<state, turns, shown>>
    /\ UNCHANGED <<hvars, xvars, evars, avars, uvars>>

\* The conditional edge takes "continue": the chat node runs again.
RouteContinue ==
    /\ pc = "route"
    /\ _should_continue(gstate) = "continue"
    /\ gsteps < RecursionLimit
    /\ pc' = "chat"
    /\ UNCHANGED <<state, gstate, gsteps, gcalls, gfails, turns, shown>>
    /\ UNCHANGED <<hvars, xvars, evars, avars, uvars>>

\* The conditional edge takes "continue" with the graph's step budget spent:
\* invoke raises, and the exception leaves run_interactive_session.
RouteLimit ==
    /\ pc = "route"
    /\ _should_continue(gstate) = "continue"
    /\ gsteps >= RecursionLimit
    /\ pc' = "crashed"
    /\ raised' = Exc("GraphRecursionError", RecursionMessage)
    /\ UNCHANGED <<state, gstate, gsteps, gcalls, gfails, turns, shown>>
    /\ UNCHANGED <<lastline, invokes, objs, sid, printed>>
    /\ UNCHANGED <<hvars, evars, avars, uvars>>

\* The conditional edge takes "end": invoke returns the graph's state, which
\* becomes the session state, and _display_response prints its response.
RouteEnd ==
    /\ pc = "route"
    /\ _should_continue(gstate) = "end"
    /\ state' = gstate
    /\ objs' = Append(objs, gstate)
    /\ sid' = Len(objs) + 1
    /\ shown' = _display_response(gstate)
    /\ pc' = "prompt"
    /\ UNCHANGED <<gstate, gsteps, gcalls, gfails, turns>>
    /\ UNCHANGED <<lastline, invokes, raised, printed>>
    /\ UNCHANGED <<hvars, evars, avars, uvars>>

Init ==
    /\ HandlerAt(_create_initial_state)
    /\ SessionAtStart
    /\ ClientBuilt(KeyedEnvironment)
    /\ NoLists
    /\ OthersIdle

Next ==
    \/ \E line \in Lines : ReadQuit(line)
    \/ \E line \in Lines : ReadInput(line)
    \/ \E o \in Outcomes : ChatNode(o)
    \/ RouteContinue
    \/ RouteLimit
    \/ RouteEnd

Spec == Init /\ [][Next]_vars

---------------------------------------------------------------------------
(* One invocation of the compiled graph on a state a caller hands it.      *)

\* agent.invoke(st): the graph starts at its entry node with st.
InitGraph ==
    \E st \in StartStates :
        /\ HandlerAt(st)
        /\ pc = "chat"
        /\ state = st
        /\ gstate = st
        /\ gsteps = 0
        /\ gcalls = 0
        /\ gfails = 0
        /\ turns = 0
        /\ shown = None
        /\ lastline = None
        /\ invokes = 1
        /\ objs = <<st>>
        /\ sid = 1
        /\ raised = NoExc
        /\ printed = <<>>
        /\ ClientBuilt(KeyedEnvironment)
        /\ NoLists
        /\ OthersIdle
    /\ OthersIdle

NextGraph ==
    \/ \E o \in Outcomes : ChatNode(o)
    \/ RouteContinue
    \/ RouteLimit
    \/ RouteEnd

\* The completion call of the chat node returns a reply.
ChatNodeSucceeds == \E o \in Outcomes : o.ok /\ ChatNode(o)

\* The graph runs every step that is enabled, and the completion service
\* does not fail forever: a call that is made again and again succeeds.
SpecGraph ==
    /\ InitGraph
    /\ [][NextGraph]_vars
    /\ WF_vars(NextGraph)
    /\ SF_vars(ChatNodeSucceeds)

---------------------------------------------------------------------------
(* run_chat_example: ChatRunner() is built, the session runs, and the      *)
(* except clauses print what left it.                                      *)

\* OpenRouterClient.__init__, config.validate(): the key is read from the
\* environment; without one ValueError leaves ChatRunner().
Validate ==
    /\ pc = "start"
    /\ venv' = env
    /\ vkey' = api_key(env)
    /\ IF validate(env)
       THEN pc' = "validated" /\ UNCHANGED raised
       ELSE pc' = "crashed" /\ raised' = Exc("ValueError", NotSetMessage)
    /\ UNCHANGED <<state, gstate, gsteps, gcalls, gfails, turns, shown>>
    /\ UNCHANGED <<lastline, invokes, objs, sid, printed>>
    /\ UNCHANGED <<env, ckey>>
    /\ UNCHANGED <<avars, uvars>>
    /\ UNCHANGED hvars

\* OpenRouterClient.__init__, ChatOpenAI(api_key=SecretStr(config.api_key or
\* "")): the key is read from the environment again; the graph is compiled
\* and run_interactive_session starts.
BuildClient ==
    /\ pc = "validated"
    /\ ckey' = IF Truthy(api_key(env)) THEN api_key(env) ELSE <<>>
    /\ pc' = "prompt"
    /\ UNCHANGED <<state, gstate, gsteps, gcalls, gfails, turns, shown>>
    /\ UNCHANGED <<env, venv, vkey>>
    /\ UNCHANGED <<avars, uvars>>
    /\ UNCHANGED <<hvars, xvars>>

\* The process environment is rewritten (os.environ, putenv) after the key
\* was validated: before the client is built, or between two turns.
EnvChange(e) ==
    /\ pc \in {"validated", "prompt"}
    /\ e # env
    /\ env' = e
    /\ UNCHANGED <<venv, vkey, ckey>>
    /\ UNCHANGED <<avars, uvars>>
    /\ UNCHANGED <<hvars, svars, xvars>>

\* input() raises KeyboardInterrupt (Ctrl-C at the prompt).
InputInterrupt ==
    /\ pc = "prompt"
    /\ pc' = "crashed"
    /\ raised' = Exc("KeyboardInterrupt", <<>>)
    /\ UNCHANGED <<state, gstate, gsteps, gcalls, gfails, turns, shown>>
    /\ UNCHANGED <<lastline, invokes, objs, sid, printed>>
    /\ UNCHANGED <<hvars, evars, avars, uvars>>

\* input() raises EOFError (the input stream is closed).
InputEOF ==
    /\ pc = "prompt"
    /\ pc' = "crashed"
    /\ raised' = Exc("EOFError", EOFMessage)
    /\ UNCHANGED <<state, gstate, gsteps, gcalls, gfails, turns, shown>>
    /\ UNCHANGED <<lastline, invokes, objs, sid, printed>>
    /\ UNCHANGED <<hvars, evars, avars, uvars>>

\* KeyboardInterrupt during the completion call: process_message catches
\* Exception only, so it leaves the chat node, invoke and the session.
CallInterrupt ==
    /\ pc = "chat"
    /\ CallsCompletion(gstate)
    /\ gcalls' = gcalls + 1
    /\ pc' = "crashed"
    /\ raised' = Exc("KeyboardInterrupt", <<>>)
    /\ UNCHANGED <<state, gstate, gsteps, gfails, turns, shown>>
    /\ UNCHANGED <<lastline, invokes, objs, sid, printed>>
    /\ UNCHANGED <<hvars, evars, avars, uvars>>

\* An exception reaches the except clauses of run_chat_example.
ExceptClauses ==
    /\ pc = "crashed"
    /\ IF except_clauses(raised).caught
       THEN /\ printed' = Append(printed, except_clauses(raised).line)
            /\ pc' = "returned"
       ELSE /\ pc' = "propagated"
            /\ UNCHANGED printed
    /\ UNCHANGED <<state, gstate, gsteps, gcalls, gfails, turns, shown>>
    /\ UNCHANGED <<lastline, invokes, objs, sid, raised>>
    /\ UNCHANGED <<hvars, evars, avars, uvars>>

\* run_interactive_session returned after a quit word: so does
\* run_chat_example.
ReturnAfterQuit ==
    /\ pc = "done"
    /\ pc' = "returned"
    /\ UNCHANGED <<state, gstate, gsteps, gcalls, gfails, turns, shown>>
    /\ UNCHANGED <<hvars, xvars, evars, avars, uvars>>

InitRun ==
    /\ HandlerAt(_create_initial_state)
    /\ pc = "start"
    /\ state = _create_initial_state
    /\ gstate = _create_initial_state
    /\ gsteps = 0
    /\ gcalls = 0
    /\ gfails = 0
    /\ turns = 0
    /\ shown = None
    /\ lastline = None
    /\ invokes = 0
    /\ objs = <<_create_initial_state>>
    /\ sid = 1
    /\ raised = NoExc
    /\ printed = <<>>
    /\ env \in Environments
    /\ venv = NotRead
    /\ vkey = None
    /\ ckey = None
    /\ NoLists
    /\ OthersIdle

NextRun ==
    \/ Validate
    \/ BuildClient
    \/ \E e \in EnvChanges : EnvChange(e)
    \/ InputInterrupt
    \/ InputEOF
    \/ CallInterrupt
    \/ ExceptClauses
    \/ ReturnAfterQuit
    \/ Next

SpecRun == InitRun /\ [][NextRun]_vars

---------------------------------------------------------------------------
(* MessageHandler on Python lists: the transcript and the history of a     *)
(* state are references to list objects of the heap, so that a write to a  *)
(* list is seen through every state that names it.                         *)

\* list.copy(): a new list object with the same entries; its reference is
\* the length of the returned heap.
list_copy(h, r) == Append(h, h[r])

\* list.extend(items) / list.append(item): the list object r is written.
list_extend(h, r, items) == [h EXCEPT ![r] = @ \o items]

\* Variant: the lists of the given state are extended (no .copy()).
update_state_success_lists_in_place(h, st, user_input, response_text) ==
    LET messages == st.messages
        h1 == list_extend(h, messages,
                          <<UserPrefix \o user_input,
                            AssistantPrefix \o response_text>>)
        chat_history == st.chat_history
        h2 == list_extend(h1, chat_history,
                          <<ChatMessage("user", user_input),
                            ChatMessage("assistant", response_text)>>)
    IN  [heap |-> h2,
         state |-> ChatState(messages, chat_history, None, response_text)]

\* _update_state_success with its two .copy() calls.
_update_state_success_lists(h, st, user_input, response_text) ==
    LET h1 == list_copy(h, st.messages)
        messages == Len(h1)
        h2 == list_extend(h1, messages,
                          <<UserPrefix \o user_input,
                            AssistantPrefix \o response_text>>)
        h3 == list_copy(h2, st.chat_history)
        chat_history == Len(h3)
        h4 == list_extend(h3, chat_history,
                          <<ChatMessage("user", user_input),
                            ChatMessage("assistant", response_text)>>)
    IN  [heap |-> h4,
         state |-> ChatState(messages, chat_history, None, response_text)]

\* _update_state_error: the transcript is copied, the history list of the
\* given state is handed on as it is.
_update_state_error_lists(h, st, error_message) ==
    LET error_msg == ErrorPrefix \o error_message
        h1 == list_copy(h, st.messages)
        messages == Len(h1)
        h2 == list_extend(h1, messages, <<error_msg>>)
    IN  [heap |-> h2,
         state |-> ChatState(messages, st.chat_history, st.user_input, error_msg)]

process_message_lists(h, st, o) ==
    IF ~CallsCompletion(st)
    THEN [heap |-> h, state |-> st]
    ELSE IF o.ok
         THEN _update_state_success_lists(h, st, st.user_input, o.text)
         ELSE _update_state_error_lists(h, st, o.text)

\* The state st with its lists read from heap h.
Deref(h, st) ==
    ChatState(h[st.messages], h[st.chat_history], st.user_input, st.response)

AliasInputs == {None, <<>>, hi, quit}

\* A caller holds a state whose transcript is list 1 and whose history is
\* list 2.
InitAlias ==
    /\ \E m \in StartTranscripts, c \in StartHistories,
          u \in AliasInputs, r \in StartResponses :
           /\ heap = <<m, c>>
           /\ astate = ChatState(1, 2, u, r)
    /\ acall = NoAliasCall
    /\ acalls = 0
    /\ asets = 0
    /\ HandlerAt(_create_initial_state)
    /\ SessionAtStart
    /\ ClientBuilt(KeyedEnvironment)
    /\ OthersIdle

\* The caller records the next pending input in the state it holds.
AliasSetUserInput(u) ==
    /\ asets < MaxSets
    /\ astate' = [astate EXCEPT !.user_input = u]
    /\ asets' = asets + 1
    /\ UNCHANGED <<heap, acall, acalls>>
    /\ UNCHANGED <<hvars, svars, xvars, evars, uvars>>

\* One process_message call on the state the caller holds; the caller goes
\* on with the returned state.
AliasProcessMessage(o) ==
    /\ acalls < MaxCalls
    /\ LET result == process_message_lists(heap, astate, o)
       IN  /\ heap' = result.heap
           /\ astate' = result.state
           /\ acall' = [done |-> TRUE, arg |-> astate, ret |-> result.state,
                        before |-> heap, called |-> CallsCompletion(astate),
                        ok |-> o.ok, text |-> o.text]
    /\ acalls' = acalls + 1
    /\ UNCHANGED asets
    /\ UNCHANGED <<hvars, svars, xvars, evars, uvars>>

NextAlias ==
    \/ \E u \in NextInputs : AliasSetUserInput(u)
    \/ \E o \in Outcomes : AliasProcessMessage(o)

SpecAlias == InitAlias /\ [][NextAlias]_vars

---------------------------------------------------------------------------
(* The legacy chat path of src/chat_agent.py: chat_node reads the key from *)
(* the environment at every execution and appends to the lists of the      *)
(* state it is given.                                                      *)

\* chat_node, the api_key it reads from the environment.
legacy_api_key(e) == IF Truthy(e.openrouter) THEN e.openrouter ELSE e.openai

\* chat_node, the response it builds when no key is set.
legacy_not_set ==
    <<"E", "r", "r", "o", "r", ":", " ", "O", "P", "E", "N", "R", "O", "U",
      "T", "E", "R", "_", "A", "P", "I", "_", "K", "E", "Y", " ", "o", "r",
      " ", "O", "P", "E", "N", "A", "I", "_", "A", "P", "I", "_", "K", "E",
      "Y", " ", "e", "n", "v", "i", "r", "o", "n", "m", "e", "n", "t", " ",
      "v", "a", "r", "i", "a", "b", "l", "e", " ", "n", "o", "t", " ", "s",
      "e", "t">>

\* chat_node without a key: the line is appended to the given transcript.
legacy_no_key(h, st) ==
    LET response == legacy_not_set
        messages == st.messages
        h1 == list_extend(h, messages, <<response>>)
    IN  [heap |-> h1, contacted |-> FALSE,
         state |-> ChatState(messages, st.chat_history, st.user_input, response)]

\* chat_node after the service answered response_text.
legacy_success(h, st, user_input, response_text) ==
    LET messages == st.messages
        h1 == list_extend(h, messages, <<UserPrefix \o user_input>>)
        h2 == list_extend(h1, messages, <<AssistantPrefix \o response_text>>)
        chat_history == st.chat_history
        h3 == list_extend(h2, chat_history, <<ChatMessage("user", user_input)>>)
        h4 == list_extend(h3, chat_history,
                          <<ChatMessage("assistant", response_text)>>)
    IN  [heap |-> h4, contacted |-> TRUE,
         state |-> ChatState(messages, chat_history, None, response_text)]

\* Variant: the error line carries the bare message.
legacy_error_bare(h, st, e) ==
    LET error_msg == e
        messages == st.messages
        h1 == list_extend(h, messages, <<error_msg>>)
    IN  [heap |-> h1, contacted |-> TRUE,
         state |-> ChatState(messages, st.chat_history, st.user_input, error_msg)]

\* chat_node after the call raised e.
legacy_error(h, st, e) ==
    LET error_msg == ErrorPrefix \o e
        messages == st.messages
        h1 == list_extend(h, messages, <<error_msg>>)
    IN  [heap |-> h1, contacted |-> TRUE,
         state |-> ChatState(messages, st.chat_history, st.user_input, error_msg)]

\* Variant: the pending input is looked at before the key.
chat_node_input_first(h, st, e, o) ==
    IF ~Truthy(st.user_input)
    THEN [heap |-> h, contacted |-> FALSE, state |-> st]
    ELSE IF ~Truthy(legacy_api_key(e))
         THEN legacy_no_key(h, st)
         ELSE IF o.ok
              THEN legacy_success(h, st, st.user_input, o.text)
              ELSE legacy_error(h, st, o.text)

\* chat_node in environment e; o is what the completion service does if it
\* is called.
chat_node(h, st, e, o) ==
    IF ~Truthy(legacy_api_key(e))
    THEN legacy_no_key(h, st)
    ELSE IF ~Truthy(st.user_input)
         THEN [heap |-> h, contacted |-> FALSE, state |-> st]
         ELSE IF o.ok
              THEN legacy_success(h, st, st.user_input, o.text)
              ELSE legacy_error(h, st, o.text)

should_continue_chat(st) ==
    IF Truthy(st.user_input) /\ Lower(st.user_input) \notin {quit, exit, bye}
    THEN "continue"
    ELSE "end"

LegacyInputs ==
    {None, <<>>, hi, quit, <<"Q", "U", "I", "T">>, <<"B", "y", "e">>}

\* main.py option 2 before create_chat_agent(): nothing has read the
\* environment, and a caller holds a state whose transcript is list 1 and
\* whose history is list 2.
InitLegacy ==
    /\ \E m \in StartTranscripts, c \in StartHistories,
          u \in LegacyInputs, r \in StartResponses :
           /\ heap = <<m, c>>
           /\ astate = ChatState(1, 2, u, r)
    /\ acall = NoAliasCall
    /\ acalls = 0
    /\ asets = 0
    /\ HandlerAt(_create_initial_state)
    /\ pc = "start"
    /\ state = _create_initial_state
    /\ gstate = _create_initial_state
    /\ gsteps = 0
    /\ gcalls = 0
    /\ gfails = 0
    /\ turns = 0
    /\ shown = None
    /\ lastline = None
    /\ invokes = 0
    /\ objs = <<_create_initial_state>>
    /\ sid = 1
    /\ raised = NoExc
    /\ printed = <<>>
    /\ env \in Environments
    /\ venv = NotRead
    /\ vkey = None
    /\ ckey = None
    /\ OthersIdle

\* create_chat_agent() of the legacy path: the graph is compiled; the
\* environment is not read.
LegacyCreateAgent ==
    /\ pc = "start"
    /\ pc' = "prompt"
    /\ UNCHANGED <<state, gstate, gsteps, gcalls, gfails, turns, shown>>
    /\ UNCHANGED <<hvars, xvars, evars, avars, uvars>>

\* The caller records the next pending input in the state it holds.
LegacySetUserInput(u) ==
    /\ pc = "prompt"
    /\ asets < MaxSets
    /\ astate' = [astate EXCEPT !.user_input = u]
    /\ asets' = asets + 1
    /\ UNCHANGED <<heap, acall, acalls>>
    /\ UNCHANGED <<hvars, svars, xvars, evars, uvars>>

\* One execution of chat_node on the state the caller holds; the caller goes
\* on with the returned state.
LegacyChatNode(o) ==
    /\ pc = "prompt"
    /\ acalls < MaxCalls
    /\ LET result == chat_node(heap, astate, env, o)
       IN  /\ heap' = result.heap
           /\ astate' = result.state
           /\ acall' = [done |-> TRUE, arg |-> astate, ret |-> result.state,
                        before |-> heap, called |-> result.contacted,
                        ok |-> o.ok, text |-> o.text]
    /\ acalls' = acalls + 1
    /\ UNCHANGED asets
    /\ UNCHANGED <<hvars, svars, xvars, evars, uvars>>

NextLegacy ==
    \/ LegacyCreateAgent
    \/ \E u \in NextInputs : LegacySetUserInput(u)
    \/ \E o \in Outcomes : LegacyChatNode(o)

SpecLegacy == InitLegacy /\ [][NextLegacy]_vars

---------------------------------------------------------------------------
(* OpenRouterClient.generate_response: the content of the service's        *)
(* response is a str, a list, None or another Python value.                *)

Content(kind, val) == [kind |-> kind, val |-> val]

\* The contents the service is taken to answer with.
Contents ==
    <<Content("str", <<>>), Content("str", yo), Content("none", <<>>),
      Content("list", <<>>), Content("list", <<<<"a">>>>),
      Content("list", <<<<"a">>, <<"b">>>>),
      Content("int", 0), Content("int", 7), Content("int", 42),
      Content("bool", FALSE), Content("bool", TRUE)>>

\* Python's truth value of a content.
content_truth(c) ==
    CASE c.kind = "str" -> Len(c.val) > 0
      [] c.kind = "none" -> FALSE
      [] c.kind = "list" -> Len(c.val) > 0
      [] c.kind = "int" -> c.val # 0
      [] c.kind = "bool" -> c.val

Digits == <<"0", "1", "2", "3", "4", "5", "6", "7", "8", "9">>

RECURSIVE str_int(_)
str_int(n) ==
    IF n < 10
    THEN <<Digits[n + 1]>>
    ELSE str_int(n \div 10) \o <<Digits[(n % 10) + 1]>>

\* repr() of a str without quotes or escapes in it.
repr_str(t) == <<"'">> \o t \o <<"'">>

RECURSIVE join_repr(_)
join_repr(items) ==
    IF items = <<>>
    THEN <<>>
    ELSE IF Len(items) = 1
         THEN repr_str(items[1])
         ELSE repr_str(items[1]) \o <<",", " ">> \o join_repr(Tail(items))

\* Python's str() of a content that is no str.
str(c) ==
    CASE c.kind = "none" -> <<"N", "o", "n", "e">>
      [] c.kind = "list" -> <<"[">> \o join_repr(c.val) \o <<"]">>
      [] c.kind = "int" -> str_int(c.val)
      [] c.kind = "bool" -> IF c.val THEN <<"T", "r", "u", "e">>
                                     ELSE <<"F", "a", "l", "s", "e">>

\* Variant: the content is rendered whatever its truth value.
extract_content_renders_all(content) ==
    IF content.kind = "str"
    THEN content.val
    ELSE str(content)

_extract_content(content) ==
    IF content.kind = "str"
    THEN content.val
    ELSE IF content_truth(content) THEN str(content) ELSE <<>>

\* What self._llm.invoke does: it raises, or answers with Contents[i].
Responses ==
    [raises : {TRUE}, content : {1}, text : ErrorTexts]
        \cup [raises : {FALSE}, content : 1..Len(Contents), text : {<<>>}]

\* generate_response: the value returned, or the exception invoke raised.
generate_response(user_input, system_message, r) ==
    IF r.raises
    THEN [raised |-> TRUE, value |-> r.text]
    ELSE [raised |-> FALSE, value |-> _extract_content(Contents[r.content])]

system_message == <<"s", "y", "s">>

InitClient ==
    /\ flog = <<>>
    /\ CacheBuilt(0)
    /\ UtilsIdle
    /\ HandlerAt(_create_initial_state)
    /\ SessionAtStart
    /\ ClientBuilt(KeyedEnvironment)
    /\ NoLists

\* One generate_response call on a built client.
GenerateResponse(u, r) ==
    /\ Len(flog) < MaxCalls
    /\ flog' = Append(flog, [response |-> r,
                             result |-> generate_response(u, system_message, r)])
    /\ UNCHANGED <<hvars, svars, xvars, evars, avars, cvars, wvars>>

NextClient == \E u \in {hi}, r \in Responses : GenerateResponse(u, r)

SpecClient == InitClient /\ [][NextClient]_vars

---------------------------------------------------------------------------
(* TypedCache: a dict, which keeps its items in the order their keys were  *)
(* inserted, and a size limit.                                             *)

Item(key, value) == [key |-> key, value |-> value]

\* key in self._cache
HasKey(c, key) == \E i \in 1..Len(c) : c[i].key = key

\* self._cache.get(key)
dict_get(c, key) ==
    IF HasKey(c, key)
    THEN c[CHOOSE i \in 1..Len(c) : c[i].key = key].value
    ELSE None

\* del self._cache[key]
dict_delitem(c, key) ==
    LET Keeps(it) == it.key # key
    IN  SelectSeq(c, Keeps)

\* self._cache[key] = value: a present key keeps its place, a new key goes
\* to the end.
dict_setitem(c, key, value) ==
    IF HasKey(c, key)
    THEN [i \in 1..Len(c) |-> IF c[i].key = key THEN Item(key, value) ELSE c[i]]
    ELSE Append(c, Item(key, value))

TypedCache_get(c, key) == dict_get(c, key)

\* Variant: the item stored last is removed.
TypedCache_set_evicts_newest(c, max_size, key, value) ==
    IF Len(c) >= max_size /\ ~HasKey(c, key)
    THEN IF c = <<>>
         THEN [cache |-> c, raised |-> Exc("StopIteration", <<>>)]
         ELSE LET oldest_key == c[Len(c)].key
              IN  [cache |-> dict_setitem(dict_delitem(c, oldest_key), key, value),
                   raised |-> NoExc]
    ELSE [cache |-> dict_setitem(c, key, value), raised |-> NoExc]

\* Variant: room is made only once the limit is exceeded (> for >=).
TypedCache_set_late(c, max_size, key, value) ==
    IF Len(c) > max_size /\ ~HasKey(c, key)
    THEN IF c = <<>>
         THEN [cache |-> c, raised |-> Exc("StopIteration", <<>>)]
         ELSE LET oldest_key == c[1].key
              IN  [cache |-> dict_setitem(dict_delitem(c, oldest_key), key, value),
                   raised |-> NoExc]
    ELSE [cache |-> dict_setitem(c, key, value), raised |-> NoExc]

\* set: next(iter(self._cache)) is the first key of the dict, and it raises
\* StopIteration on an empty dict.
TypedCache_set(c, max_size, key, value) ==
    IF Len(c) >= max_size /\ ~HasKey(c, key)
    THEN IF c = <<>>
         THEN [cache |-> c, raised |-> Exc("StopIteration", <<>>)]
         ELSE LET oldest_key == c[1].key
              IN  [cache |-> dict_setitem(dict_delitem(c, oldest_key), key, value),
                   raised |-> NoExc]
    ELSE [cache |-> dict_setitem(c, key, value), raised |-> NoExc]

TypedCache_clear(c) == <<>>

\* The records kept beside the cache: when each key now present was stored,
\* and what became of each key; gone names how keys leave in this operation.
Born(c) ==
    [k \in Keys |-> IF ~HasKey(c, k) THEN 0
                    ELSE IF HasKey(cache, k) THEN cborn[k] ELSE cops + 1]

Status(c, gone) ==
    [k \in Keys |-> IF HasKey(c, k) THEN "stored"
                    ELSE IF HasKey(cache, k) THEN gone ELSE cstatus[k]]

InitCache ==
    /\ \E max_size \in 0..MaxSize : CacheBuilt(max_size)
    /\ ClientIdle
    /\ UtilsIdle
    /\ HandlerAt(_create_initial_state)
    /\ SessionAtStart
    /\ ClientBuilt(KeyedEnvironment)
    /\ NoLists

CacheSet(key, value) ==
    /\ cops < MaxOps
    /\ LET r == TypedCache_set(cache, cmax, key, value)
       IN  /\ cache' = r.cache
           /\ clast' = [op |-> "set", key |-> key, value |-> value,
                        result |-> None, raised |-> r.raised,
                        before |-> cache, born |-> cborn]
           /\ cborn' = Born(r.cache)
           /\ cstatus' = Status(r.cache, "evicted")
    /\ cops' = cops + 1
    /\ UNCHANGED cmax
    /\ UNCHANGED <<hvars, svars, xvars, evars, avars, fvars, wvars>>

CacheGet(key) ==
    /\ cops < MaxOps
    /\ clast' = [op |-> "get", key |-> key, value |-> None,
                 result |-> TypedCache_get(cache, key), raised |-> NoExc,
                 before |-> cache, born |-> cborn]
    /\ cops' = cops + 1
    /\ UNCHANGED <<cmax, cache, cborn, cstatus>>
    /\ UNCHANGED <<hvars, svars, xvars, evars, avars, fvars, wvars>>

CacheClear ==
    /\ cops < MaxOps
    /\ cache' = TypedCache_clear(cache)
    /\ clast' = [op |-> "clear", key |-> None, value |-> None,
                 result |-> None, raised |-> NoExc,
                 before |-> cache, born |-> cborn]
    /\ cborn' = Born(cache')
    /\ cstatus' = Status(cache', "cleared")
    /\ cops' = cops + 1
    /\ UNCHANGED cmax
    /\ UNCHANGED <<hvars, svars, xvars, evars, avars, fvars, wvars>>

NextCache ==
    \/ \E key \in Keys, value \in Values : CacheSet(key, value)
    \/ \E key \in Keys : CacheGet(key)
    \/ CacheClear

SpecCache == InitCache /\ [][NextCache]_vars

---------------------------------------------------------------------------
(* retry_async: the wrapper around an async function.                      *)

\* The exceptions the wrapped function raises. ErrorList stands for an
\* Exception subclass that defines __len__ (a collection of errors) and is
\* raised holding none, so that its truth value is False.
RetryErrors ==
    {Exc("ValueError", boom), Exc("TimeoutError", <<>>), Exc("ErrorList", <<>>)}

FalsyClasses == {"ErrorList"}

\* The truth value of last_exception: None is false, an exception object
\* is true unless its class says otherwise.
exception_truth(e) == e # NoExc /\ e.cls \notin FalsyClasses

WithoutException ==
    <<"R", "e", "t", "r", "y", " ", "f", "a", "i", "l", "e", "d", " ",
      "w", "i", "t", "h", "o", "u", "t", " ", "e", "x", "c", "e", "p",
      "t", "i", "o", "n">>

RECURSIVE Pow2(_)
Pow2(k) == IF k = 0 THEN 1 ELSE 2 * Pow2(k - 1)

\* Variant: the delay grows linearly (2 * attempt for 2 ** attempt).
backoff_linear(attempt) == 2 * attempt

\* asyncio.sleep(2**attempt)
backoff(attempt) == Pow2(attempt)

\* if attempt < max_attempts - 1
sleeps_after(attempt, max_attempts) == attempt < max_attempts - 1

\* last_exception = e
remember(last_exception, e) == e

Event(ev, ok, value, exc, secs) ==
    [ev |-> ev, ok |-> ok, value |-> value, exc |-> exc, secs |-> secs]

Outcome(kind, value, exc, at) ==
    [kind |-> kind, value |-> value, exc |-> exc, at |-> at]

\* The wrapper has been called and stands before its loop.
InitRetry ==
    /\ rmax \in -1..MaxAttempts
    /\ rpc = "loop"
    /\ rattempt = 0
    /\ rlast = NoExc
    /\ rlog = <<>>
    /\ rout = NoOutcome
    /\ ResourceIdle /\ SimpleIdle /\ MapIdle
    /\ ClientIdle
    /\ CacheBuilt(0)
    /\ HandlerAt(_create_initial_state)
    /\ SessionAtStart
    /\ ClientBuilt(KeyedEnvironment)
    /\ NoLists

\* An attempt: func is awaited and returns value, which the wrapper returns.
RetryCallReturns(value) ==
    /\ rpc = "loop"
    /\ rattempt < rmax
    /\ rlog' = Append(rlog, Event("call", TRUE, value, NoExc, 0))
    /\ rout' = Outcome("returned", value, NoExc, "return")
    /\ rpc' = "returned"
    /\ UNCHANGED <<rmax, rattempt, rlast>>
    /\ UNCHANGED <<hvars, svars, xvars, evars, avars, fvars, cvars>>
    /\ UNCHANGED <<mvars, zvars, pvars>>

\* An attempt: func is awaited and raises e.
RetryCallRaises(e) ==
    /\ rpc = "loop"
    /\ rattempt < rmax
    /\ rlog' = Append(rlog, Event("call", FALSE, None, e, 0))
    /\ rlast' = remember(rlast, e)
    /\ IF sleeps_after(rattempt, rmax)
       THEN rpc' = "sleep" /\ rattempt' = rattempt
       ELSE rpc' = "loop" /\ rattempt' = rattempt + 1
    /\ UNCHANGED <<rmax, rout>>
    /\ UNCHANGED <<hvars, svars, xvars, evars, avars, fvars, cvars>>
    /\ UNCHANGED <<mvars, zvars, pvars>>

\* await asyncio.sleep(2**attempt) returns and the loop goes on.
RetrySleep ==
    /\ rpc = "sleep"
    /\ rlog' = Append(rlog, Event("sleep", FALSE, None, NoExc, backoff(rattempt)))
    /\ rattempt' = rattempt + 1
    /\ rpc' = "loop"
    /\ UNCHANGED <<rmax, rlast, rout>>
    /\ UNCHANGED <<hvars, svars, xvars, evars, avars, fvars, cvars>>
    /\ UNCHANGED <<mvars, zvars, pvars>>

\* The loop is over without a return: the wrapper raises.
RetryExhausted ==
    /\ rpc = "loop"
    /\ rattempt >= rmax
    /\ rout' = IF exception_truth(rlast)
               THEN Outcome("raised", None, rlast, "last_exception")
               ELSE Outcome("raised", None, Exc("RuntimeError", WithoutException),
                            "without_exception")
    /\ rpc' = "raised"
    /\ UNCHANGED <<rmax, rattempt, rlast, rlog>>
    /\ UNCHANGED <<hvars, svars, xvars, evars, avars, fvars, cvars>>
    /\ UNCHANGED <<mvars, zvars, pvars>>

NextRetry ==
    \/ \E value \in Values : RetryCallReturns(value)
    \/ \E e \in RetryErrors : RetryCallRaises(e)
    \/ RetrySleep
    \/ RetryExhausted

SpecRetry == InitRetry /\ [][NextRetry]_vars

---------------------------------------------------------------------------
(* managed_resource: the async context manager.                            *)

\* config.name, and the readings of the event loop's clock.
ResourceNames == {<<"a">>, <<"b">>, <<"c">>}

Clock == 0..2

\* The dict built before the yield.
resource_new(name, now) == [name |-> name, created_at |-> now, active |-> TRUE]

\* Variant: the cleanup is skipped when the body raised (no finally).
cleanup_unless_raised(resource, body_raised) ==
    IF body_raised THEN resource ELSE [resource EXCEPT !.active = FALSE]

\* finally: resource["active"] = False, whether or not the body raised.
cleanup(resource, body_raised) == [resource EXCEPT !.active = FALSE]

Seen(ev, active, exc) == [ev |-> ev, active |-> active, exc |-> exc]

InitResource ==
    /\ ResourceIdle
    /\ RetryIdle /\ SimpleIdle /\ MapIdle
    /\ ClientIdle
    /\ CacheBuilt(0)
    /\ HandlerAt(_create_initial_state)
    /\ SessionAtStart
    /\ ClientBuilt(KeyedEnvironment)
    /\ NoLists

\* async with managed_resource(config) as resource: runs up to the yield.
ResourceEnter(name, now) ==
    /\ mpc = "idle"
    /\ mres' = resource_new(name, now)
    /\ mpc' = "body"
    /\ UNCHANGED <<mobs, mexc>>
    /\ UNCHANGED <<hvars, svars, xvars, evars, avars, fvars, cvars>>
    /\ UNCHANGED <<rvars, zvars, pvars>>

\* The body reads resource["active"].
ResourceRead ==
    /\ mpc = "body"
    /\ Len(mobs) < MaxReads
    /\ mobs' = Append(mobs, Seen("read", mres.active, NoExc))
    /\ UNCHANGED <<mpc, mres, mexc>>
    /\ UNCHANGED <<hvars, svars, xvars, evars, avars, fvars, cvars>>
    /\ UNCHANGED <<rvars, zvars, pvars>>

\* The body completes: the generator resumes after the yield and ends.
ResourceExit ==
    /\ mpc = "body"
    /\ mobs' = Append(mobs, Seen("done", mres.active, NoExc))
    /\ mres' = cleanup(mres, FALSE)
    /\ mexc' = NoExc
    /\ mpc' = "exited"
    /\ UNCHANGED <<hvars, svars, xvars, evars, avars, fvars, cvars>>
    /\ UNCHANGED <<rvars, zvars, pvars>>

\* The body raises e: it is thrown into the generator at the yield, the
\* finally clause runs and e leaves the async-with statement.
ResourceRaise(e) ==
    /\ mpc = "body"
    /\ mobs' = Append(mobs, Seen("raise", mres.active, e))
    /\ mres' = cleanup(mres, TRUE)
    /\ mexc' = e
    /\ mpc' = "exited"
    /\ UNCHANGED <<hvars, svars, xvars, evars, avars, fvars, cvars>>
    /\ UNCHANGED <<rvars, zvars, pvars>>

NextResource ==
    \/ \E name \in ResourceNames, now \in Clock : ResourceEnter(name, now)
    \/ ResourceRead
    \/ ResourceExit
    \/ \E e \in RetryErrors : ResourceRaise(e)

SpecResource == InitResource /\ [][NextResource]_vars

---------------------------------------------------------------------------
(* simple_agent: a graph with the single node reasoning.                   *)

AgentState(messages, current_task, completed_tasks) ==
    [messages |-> messages, current_task |-> current_task,
     completed_tasks |-> completed_tasks]

ProcessingPrefix ==
    <<"P", "r", "o", "c", "e", "s", "s", "i", "n", "g", " ", "t", "a", "s", "k", ":", " ">>

StartingUp ==
    <<"A", "g", "e", "n", "t", " ", "s", "t", "a", "r", "t", "i", "n", "g", " ", "u", "p", ".", ".", ".">>

analyze == <<"a", "n", "a", "l", "y", "z", "e">>

report == <<"r", "e", "p", "o", "r", "t">>

\* The states the graph is invoked with: run_agent_example's, and others
\* of the same type.
AgentStates ==
    {AgentState(m, t, c) :
        m \in {<<>>, <<StartingUp>>},
        t \in {<<>>, analyze, report},
        c \in {<<>>, <<analyze>>, <<report>>, <<analyze, report>>}}

\* x in list
InList(x, list) == \E i \in 1..Len(list) : list[i] = x

reasoning_node(st) ==
    IF st.current_task # <<>> /\ ~InList(st.current_task, st.completed_tasks)
    THEN AgentState(Append(st.messages, ProcessingPrefix \o st.current_task),
                    <<>>,
                    Append(st.completed_tasks, st.current_task))
    ELSE st

should_continue(st) == IF st.current_task # <<>> THEN "continue" ELSE "end"

InitSimple ==
    /\ SimpleIdle
    /\ RetryIdle /\ ResourceIdle /\ MapIdle
    /\ ClientIdle
    /\ CacheBuilt(0)
    /\ HandlerAt(_create_initial_state)
    /\ SessionAtStart
    /\ ClientBuilt(KeyedEnvironment)
    /\ NoLists

\* agent.invoke(initial_state): the graph starts at its entry point.
SimpleInvoke(initial_state) ==
    /\ zpc = "idle"
    /\ zstart' = initial_state
    /\ zstate' = initial_state
    /\ zsteps' = 0
    /\ zpc' = "reasoning"
    /\ UNCHANGED <<hvars, svars, xvars, evars, avars, fvars, cvars>>
    /\ UNCHANGED <<rvars, mvars, pvars>>

\* The node runs and its return value becomes the graph's state.
ReasoningNode ==
    /\ zpc = "reasoning"
    /\ zstate' = reasoning_node(zstate)
    /\ zsteps' = zsteps + 1
    /\ zpc' = "route"
    /\ UNCHANGED zstart
    /\ UNCHANGED <<hvars, svars, xvars, evars, avars, fvars, cvars>>
    /\ UNCHANGED <<rvars, mvars, pvars>>

\* The conditional edge takes "continue": the node runs again.
SimpleRouteContinue ==
    /\ zpc = "route"
    /\ should_continue(zstate) = "continue"
    /\ zsteps < RecursionLimit
    /\ zpc' = "reasoning"
    /\ UNCHANGED <<zstart, zstate, zsteps>>
    /\ UNCHANGED <<hvars, svars, xvars, evars, avars, fvars, cvars>>
    /\ UNCHANGED <<rvars, mvars, pvars>>

\* The conditional edge takes "continue" with the graph's step budget
\* spent: invoke raises GraphRecursionError.
SimpleRouteLimit ==
    /\ zpc = "route"
    /\ should_continue(zstate) = "continue"
    /\ zsteps >= RecursionLimit
    /\ zpc' = "crashed"
    /\ UNCHANGED <<zstart, zstate, zsteps>>
    /\ UNCHANGED <<hvars, svars, xvars, evars, avars, fvars, cvars>>
    /\ UNCHANGED <<rvars, mvars, pvars>>

\* The conditional edge takes "end": invoke returns the graph's state.
SimpleRouteEnd ==
    /\ zpc = "route"
    /\ should_continue(zstate) = "end"
    /\ zpc' = "end"
    /\ UNCHANGED <<zstart, zstate, zsteps>>
    /\ UNCHANGED <<hvars, svars, xvars, evars, avars, fvars, cvars>>
    /\ UNCHANGED <<rvars, mvars, pvars>>

NextSimple ==
    \/ \E initial_state \in AgentStates : SimpleInvoke(initial_state)
    \/ ReasoningNode
    \/ SimpleRouteContinue
    \/ SimpleRouteLimit
    \/ SimpleRouteEnd

SpecSimple == InitSimple /\ [][NextSimple]_vars

---------------------------------------------------------------------------
(* models: Result.map.                                                     *)

StatusEnum == {"PENDING", "RUNNING", "COMPLETED", "FAILED"}

Result(value, status, message) ==
    [value |-> value, status |-> status, message |-> message]

NoneValue == Content("none", <<>>)

\* The results map is called on: an int, a str or None as value, any
\* status, with and without a message.
Results ==
    {Result(value, status, message) :
        value \in {Content("int", 5), Content("str", yo), NoneValue},
        status \in StatusEnum,
        message \in {None, boom}}

\* The functions handed to map: str (as in test_result_map_success) and bool.
Funcs == {"str", "bool"}

\* func(value)
call(func, value) ==
    IF func = "str"
    THEN Content("str", IF value.kind = "str" THEN value.val ELSE str(value))
    ELSE Content("bool", content_truth(value))

is_success(self) == self.status = "COMPLETED"

\* What a call of map did: the Result it returned and the arguments func
\* was called with.
Mapped(ret, called) == [ret |-> ret, called |-> called]

\* Variant: func is applied whatever the status.
map_every_status(self, func) ==
    Mapped(Result(call(func, self.value), self.status, self.message),
           <<self.value>>)

map(self, func) ==
    IF is_success(self)
    THEN Mapped(Result(call(func, self.value), self.status, self.message),
                <<self.value>>)
    ELSE Mapped(Result(NoneValue, self.status, self.message), <<>>)

InitMap ==
    /\ MapIdle
    /\ RetryIdle /\ ResourceIdle /\ SimpleIdle
    /\ ClientIdle
    /\ CacheBuilt(0)
    /\ HandlerAt(_create_initial_state)
    /\ SessionAtStart
    /\ ClientBuilt(KeyedEnvironment)
    /\ NoLists

\* self.map(func)
ResultMap(self, func) ==
    /\ Len(plog) < MaxMaps
    /\ plog' = Append(plog, [self |-> self, func |-> func,
                             out |-> map(self, func)])
    /\ UNCHANGED <<hvars, svars, xvars, evars, avars, fvars, cvars>>
    /\ UNCHANGED <<rvars, mvars, zvars>>

NextMap == \E self \in Results, func \in Funcs : ResultMap(self, func)

SpecMap == InitMap /\ [][NextMap]_vars

---------------------------------------------------------------------------
(* Properties.                                                             *)

Last(seq) == seq[Len(seq)]

\* A call of process_message has been made with a non-empty pending input.
CalledWithInput == hlast.done /\ Truthy(hprev.user_input)

\* Two characters that are the same letter up to case.
SameLetter(c, d) ==
    \/ c = d
    \/ \E k \in 1..26 : {c, d} = {UpperChars[k], LowerChars[k]}

EqualsIgnoringCase(a, b) ==
    /\ Len(a) = Len(b)
    /\ \A i \in 1..Len(a) : SameLetter(a[i], b[i])

IsQuitWord(u) == u # None /\ \E w \in QuitWords : EqualsIgnoringCase(u, w)

\* C1: in a CLI session a failed completion call becomes an "Error: ..."
\* transcript line of the running invocation and never ends or crashes the
\* session: the invocation returns and the loop prompts again.
C1_FailedCallNeverFatal ==
    /\ pc # "crashed"
    /\ (pc \in {"chat", "route"} /\ gfails > 0 =>
            \E i \in 1..Len(gstate.messages) :
                SubSeq(gstate.messages[i], 1, Len(ErrorPrefix)) = ErrorPrefix)

\* C2: during one graph invocation the completion service is called at most
\* once, and exactly once when the turn's pending input is non-empty.
C2_OneCallPerTurn ==
    /\ gcalls <= 1
    /\ (pc = "route" /\ Truthy(state.user_input) => gcalls = 1)

\* C3: with a non-empty pending input u and a reply r, process_message
\* returns the input transcript followed by exactly "User: u", "Assistant: r"
\* and the input history followed by exactly {user, u}, {assistant, r}; from
\* an empty transcript, input "hi" with reply "yo" gives
\* ["User: hi", "Assistant: yo"].
C3_SuccessAppendsTwo ==
    (CalledWithInput /\ hlast.ok) =>
        LET n == Len(hprev.messages)
            k == Len(hprev.chat_history)
        IN  /\ Len(hstate.messages) = n + 2
            /\ SubSeq(hstate.messages, 1, n) = hprev.messages
            /\ hstate.messages[n + 1] = <<"U", "s", "e", "r", ":", " ">> \o hprev.user_input
            /\ hstate.messages[n + 2] =
                   <<"A", "s", "s", "i", "s", "t", "a", "n", "t", ":", " ">> \o hlast.text
            /\ Len(hstate.chat_history) = k + 2
            /\ SubSeq(hstate.chat_history, 1, k) = hprev.chat_history
            /\ hstate.chat_history[k + 1] = [type |-> "user", content |-> hprev.user_input]
            /\ hstate.chat_history[k + 2] = [type |-> "assistant", content |-> hlast.text]
            /\ (n = 0 /\ hprev.user_input = <<"h", "i">> /\ hlast.text = <<"y", "o">> =>
                    hstate.messages =
                        << <<"U", "s", "e", "r", ":", " ", "h", "i">>,
                           <<"A", "s", "s", "i", "s", "t", "a", "n", "t", ":", " ", "y", "o">> >>)

C3_Witness ==
    /\ CalledWithInput /\ hlast.ok
    /\ hprev.messages # <<>>
    /\ Len(hstate.messages) = Len(hprev.messages) + 2

\* C4: with a non-empty pending input, when the completion call raises with
\* message m, process_message returns the input transcript followed by
\* exactly one line "Error: m" and a history equal to the input history.
C4_FailureAppendsOneErrorLine ==
    (CalledWithInput /\ ~hlast.ok) =>
        /\ hstate.messages =
               hprev.messages \o << <<"E", "r", "r", "o", "r", ":", " ">> \o hlast.text >>
        /\ hstate.chat_history = hprev.chat_history

C4_Witness ==
    /\ CalledWithInput /\ ~hlast.ok
    /\ hprev.chat_history # <<>>
    /\ Len(hstate.messages) = Len(hprev.messages) + 1

\* C5: from an empty transcript and history, after any sequence of calls the
\* history holds two entries per successful call and the transcript holds the
\* history's entries plus one per failed call.
C5_LockstepLengths ==
    (hstart.messages = <<>> /\ hstart.chat_history = <<>>) =>
        /\ Len(hstate.chat_history) = 2 * nOk
        /\ Len(hstate.messages) = Len(hstate.chat_history) + nErr

C5_Witness ==
    /\ hstart.messages = <<>> /\ hstart.chat_history = <<>>
    /\ nOk >= 1 /\ nErr >= 1
    /\ Len(hstate.messages) = 3

\* C6: when the pending input is None or the empty string, process_message
\* returns the input state unmodified in all four fields and makes no
\* completion call.
C6_NoInputIsIdentity ==
    (hlast.done /\ hprev.user_input \in {None, <<>>}) =>
        /\ hstate.messages = hprev.messages
        /\ hstate.chat_history = hprev.chat_history
        /\ hstate.user_input = hprev.user_input
        /\ hstate.response = hprev.response
        /\ ~hlast.called

C6_Witness ==
    /\ hlast.done /\ hprev.user_input = <<>>
    /\ hprev.messages # <<>> /\ hprev.response # None
    /\ hstate = hprev

\* C7: after a successful completion call the returned state has the pending
\* input cleared (None) and the response equal to the reply text.
C7_SuccessClearsInput ==
    (CalledWithInput /\ hlast.ok) =>
        /\ hstate.user_input = None
        /\ hstate.response = hlast.text

C7_Witness ==
    /\ CalledWithInput /\ hlast.ok
    /\ hprev.response # None /\ hlast.text # hprev.response
    /\ hstate.user_input = None

\* C8: after a failed completion call the returned state keeps the pending
\* input, and its response is "Error: <message>", the very line appended to
\* the transcript.
C8_FailureKeepsInput ==
    (CalledWithInput /\ ~hlast.ok) =>
        /\ hstate.user_input = hprev.user_input
        /\ hstate.response = <<"E", "r", "r", "o", "r", ":", " ">> \o hlast.text
        /\ hstate.response = Last(hstate.messages)

C8_Witness ==
    /\ CalledWithInput /\ ~hlast.ok
    /\ hstate.user_input = hprev.user_input
    /\ hstate.response # hprev.response

\* C9: _should_continue returns "end" when the pending input is quit, exit or
\* bye in any letter case, and "continue" for every other non-empty input.
C9_QuitWordsEnd ==
    hdec.done =>
        /\ (IsQuitWord(hdec.input) => hdec.dec = "end")
        /\ (Truthy(hdec.input) /\ ~IsQuitWord(hdec.input) => hdec.dec = "continue")
        /\ hstate.user_input = hdec.input

C9_Witness ==
    /\ hdec.done
    /\ hdec.input = <<"B", "y", "E">>
    /\ hdec.dec = "end"

\* C10: _should_continue returns "end" when the pending input is None and
\* when it is the empty string.
C10_NoInputEnds ==
    (hdec.done /\ hdec.input \in {None, <<>>}) => hdec.dec = "end"

C10_Witness ==
    /\ hdec.done
    /\ hdec.input = <<>>
    /\ hdec.dec = "end"

IsPrefix(s, t) == Len(s) <= Len(t) /\ SubSeq(t, 1, Len(s)) = s

\* C14: the transcript and the structured history are append-only: across
\* every process_message call (success, failure or no-op) and across the turns
\* that carry the returned state forward, the earlier transcript is a prefix
\* of the later one and the earlier history is a prefix of the later one, so
\* n successful turns without a failure add exactly 2n lines.
C14_AppendOnly ==
    /\ IsPrefix(hstart.messages, hprev.messages)
    /\ IsPrefix(hprev.messages, hstate.messages)
    /\ IsPrefix(hstart.chat_history, hprev.chat_history)
    /\ IsPrefix(hprev.chat_history, hstate.chat_history)
    /\ (nErr = 0 => Len(hstate.messages) = Len(hstart.messages) + 2 * nOk)

\* Two calls on a non-empty transcript, one succeeded and one failed.
C14_Witness ==
    /\ hstart.messages # <<>>
    /\ hstart.chat_history # <<>>
    /\ hcalls = 2
    /\ nOk = 1
    /\ nErr = 1
    /\ Len(hstate.messages) = Len(hstart.messages) + 3

\* The transcript line that records a history entry.
Render(rec) ==
    IF rec.type = "user"
    THEN UserPrefix \o rec.content
    ELSE AssistantPrefix \o rec.content

IsErrorLine(line) == IsPrefix(ErrorPrefix, line)

NotErrorLine(line) == ~IsErrorLine(line)

FromEmpty == hstart.messages = <<>> /\ hstart.chat_history = <<>>

\* C15 as stated: from the empty initial state the history and the transcript
\* have the same number of entries and the i-th record corresponds to the
\* i-th line.
C15_HistoryMirrorsTranscript ==
    FromEmpty =>
        /\ Len(hstate.chat_history) = Len(hstate.messages)
        /\ \A i \in 1..Len(hstate.chat_history) :
               i <= Len(hstate.messages)
                   => hstate.messages[i] = Render(hstate.chat_history[i])

\* C15 amended: from the empty initial state the history mirrors the
\* transcript with its "Error: ..." lines left out, record by record; the two
\* have the same number of entries exactly while no call has failed.
C15_HistoryMirrorsTranscriptWithoutErrors ==
    FromEmpty =>
        LET spoken == SelectSeq(hstate.messages, NotErrorLine)
        IN  /\ Len(hstate.chat_history) = Len(spoken)
            /\ \A i \in 1..Len(spoken) :
                   spoken[i] = Render(hstate.chat_history[i])
            /\ Len(hstate.messages) = Len(hstate.chat_history) + nErr
            /\ (Len(hstate.chat_history) = Len(hstate.messages) <=> nErr = 0)

\* A failed call followed by a successful one, from the empty state.
C15_Witness ==
    /\ FromEmpty
    /\ nErr = 1
    /\ nOk = 1
    /\ hlast.done /\ hlast.called /\ hlast.ok
    /\ Len(hstate.messages) = 3
    /\ Len(hstate.chat_history) = 2

\* C16: process_message never mutates the state it is given: after the call,
\* on the success path and on the error path alike, every list that existed
\* before the call (the given state's transcript and history among them)
\* holds exactly the entries it held before, and the new entries are found
\* only through the returned state, whose lists hold what process_message
\* computes from the given state's entries.
C16_InputStateNotMutated ==
    acall.done =>
        LET arg == acall.arg
            ret == acall.ret
            before == acall.before
            added == Len(heap[ret.messages]) - Len(before[arg.messages])
        IN  /\ Len(heap) >= Len(before)
            /\ \A r \in 1..Len(before) : heap[r] = before[r]
            /\ heap[arg.messages] = before[arg.messages]
            /\ heap[arg.chat_history] = before[arg.chat_history]
            /\ Deref(heap, ret)
                   = process_message(Deref(before, arg),
                                     [ok |-> acall.ok, text |-> acall.text])
            /\ (acall.called => ret.messages # arg.messages /\ added > 0)
            /\ (acall.called /\ acall.ok => ret.chat_history # arg.chat_history)
            /\ (~acall.called => added = 0)

\* A failed call after a successful one, on a transcript that was not empty
\* to begin with.
C16_Witness ==
    /\ acall.done
    /\ acalls = 2
    /\ acall.called /\ ~acall.ok
    /\ acall.before[acall.arg.messages] # <<>>
    /\ acall.ret.messages # acall.arg.messages
    /\ acall.ret.chat_history = acall.arg.chat_history

\* C17 as stated: no step of a CLI session modifies an existing state object
\* in place.
C17_NoStateObjectModified ==
    [][\A i \in 1..Len(objs) : objs'[i] = objs[i]]_vars

\* C17 amended: the session state is replaced wholesale when a turn's
\* invocation returns (the session then holds a new object); the one in-place
\* change is _process_input storing the stripped line as the pending input of
\* the current state object; no transcript, history or response of an
\* existing object ever changes, and no other object's pending input does.
C17_OnlyPendingInputStoredInPlace ==
    [][/\ Len(objs') >= Len(objs)
       /\ \A i \in 1..Len(objs) :
              /\ objs'[i].messages = objs[i].messages
              /\ objs'[i].chat_history = objs[i].chat_history
              /\ objs'[i].response = objs[i].response
              /\ (objs'[i].user_input # objs[i].user_input =>
                      /\ i = sid
                      /\ pc = "prompt" /\ pc' = "chat"
                      /\ objs'[i].user_input = Strip(lastline'))
       /\ (sid' # sid =>
              /\ pc = "route" /\ pc' = "prompt"
              /\ sid' = Len(objs) + 1
              /\ Len(objs') = Len(objs) + 1)
       /\ state' = objs'[sid']]_vars

\* A turn has returned: the first object still carries the input stored in
\* it, and the session holds a second object with the exchange.
C17_Witness ==
    /\ Len(objs) = 2
    /\ sid = 2
    /\ objs[1].user_input = hi
    /\ objs[1].messages = <<>>
    /\ Len(objs[2].messages) = 2
    /\ state = objs[2]

\* C18: a line that, stripped and ignoring letter case, is quit, exit or bye
\* ends the session at once without invoking the agent; for any other line
\* the stripped text is recorded as the pending input, the agent is invoked
\* exactly once, the invocation returns, the returned state becomes the
\* session state, its response is displayed and the loop prompts again.
C18_LoopEndsOnlyOnQuitWord ==
    /\ pc # "crashed"
    /\ (pc = "done" => IsQuitWord(Strip(lastline)) /\ invokes = turns - 1)
    /\ (pc \in {"chat", "route"} =>
            /\ ~IsQuitWord(Strip(lastline))
            /\ state.user_input = Strip(lastline)
            /\ invokes = turns)
    /\ (pc = "prompt" /\ turns > 0 =>
            /\ ~IsQuitWord(Strip(lastline))
            /\ invokes = turns
            /\ state = gstate
            /\ shown = _display_response(state))

\* C20 as stated: an invocation of the graph reaches END (it does not leave
\* by an exception) and ends with the pending input cleared whenever a
\* completion call was made.
C20_ReachesEndWithInputCleared ==
    /\ pc # "crashed"
    /\ (pc = "prompt" /\ gcalls > 0 => gstate.user_input = None)

\* The invocation is over: it reached END or invoke raised.
InvocationOver == pc \in {"prompt", "crashed"}

\* C20 amended: every invocation terminates after at most RecursionLimit
\* chat-node executions; it raises GraphRecursionError exactly when the
\* pending input is not a quit word and the call failed at every execution
\* up to the limit, and reaches END otherwise; at END after a completion
\* call the pending input is cleared, except that a quit word whose single
\* call failed is kept.
C20_InvocationTerminates ==
    /\ <>InvocationOver
    /\ [](/\ gsteps <= RecursionLimit
          /\ (pc = "chat" => gsteps < RecursionLimit)
          /\ (pc = "crashed" =>
                 /\ gsteps = RecursionLimit
                 /\ gcalls = RecursionLimit
                 /\ gfails = RecursionLimit
                 /\ Truthy(gstate.user_input)
                 /\ ~IsQuitWord(gstate.user_input))
          /\ (pc = "prompt" /\ gcalls > 0 =>
                 \/ /\ gstate.user_input = None
                    /\ gfails = gcalls - 1
                 \/ /\ gcalls = 1
                    /\ gfails = 1
                    /\ gstate.user_input = hstart.user_input
                    /\ IsQuitWord(gstate.user_input))
          /\ (pc = "prompt" /\ gcalls = 0 =>
                 /\ gsteps = 1
                 /\ gstate = hstart
                 /\ ~Truthy(gstate.user_input)))

\* The graph was invoked with a quit word pending, the call failed, and the
\* run reached END with the quit word still pending.
C20_Witness ==
    /\ pc = "prompt"
    /\ invokes = 1 /\ turns = 0
    /\ gcalls = 1
    /\ gfails = 1
    /\ hstart.user_input = quit
    /\ gstate.user_input = quit

\* validate has run and found neither variable set.
NeitherKeySet == venv # NotRead /\ venv.openrouter = None /\ venv.openai = None

\* C11: when neither OPENROUTER_API_KEY nor OPENAI_API_KEY is set, ValueError
\* is raised during construction, before the client is built, before any
\* input is read and before any completion call, and run_chat_example prints
\* it as "Configuration error: ...".
C11_MissingKeyDetectedEagerly ==
    NeitherKeySet =>
        /\ pc \in {"crashed", "returned"}
        /\ raised = Exc("ValueError", NotSetMessage)
        /\ ckey = None
        /\ turns = 0 /\ lastline = None
        /\ invokes = 0 /\ gcalls = 0
        /\ (pc = "returned" =>
                printed = <<ConfigurationErrorPrefix \o NotSetMessage>>)

C11_Witness ==
    /\ NeitherKeySet
    /\ pc = "returned"
    /\ Len(printed) = 1

\* C12: api_key is the value of OPENROUTER_API_KEY whenever that is set to a
\* non-empty value (also when OPENAI_API_KEY is set too), otherwise the value
\* of OPENAI_API_KEY, and None when neither is set.
C12_OpenRouterKeyFirst ==
    venv # NotRead =>
        /\ (venv.openrouter \notin {None, <<>>} => vkey = venv.openrouter)
        /\ (venv.openrouter \in {None, <<>>} => vkey = venv.openai)
        /\ (venv.openrouter = None /\ venv.openai = None => vkey = None)

C12_Witness ==
    /\ venv # NotRead
    /\ venv.openrouter = k1 /\ venv.openai = k2
    /\ vkey = k1

\* C13: the key handed to the completion client is the very value that
\* validation checked, whatever happens to the environment after validation.
C13_KeyReadOnce == ckey # None => ckey = vkey

\* C19: run_chat_example never lets an Exception or a KeyboardInterrupt
\* through: it prints exactly one line, "Configuration error: <msg>" for a
\* ValueError, "\nChat session ended by user." for a KeyboardInterrupt and
\* "Unexpected error: <msg>" for any other Exception, and returns.
C19_ExceptionsArePrinted ==
    /\ pc # "propagated"
    /\ (raised = NoExc => printed = <<>>)
    /\ (pc = "returned" /\ raised # NoExc =>
            /\ Len(printed) = 1
            /\ (raised.cls = "ValueError" =>
                    printed[1] = ConfigurationErrorPrefix \o raised.msg)
            /\ (raised.cls = "KeyboardInterrupt" => printed[1] = EndedByUser)
            /\ (raised.cls \in {"EOFError", "GraphRecursionError"} =>
                    printed[1] = UnexpectedErrorPrefix \o raised.msg))

C19_Witness ==
    /\ pc = "returned"
    /\ raised # NoExc /\ raised.cls = "ValueError"
    /\ Len(printed) = 1

\* C21: the chat node runs before the termination predicate: an invocation
\* whose pending input is quit, exit or bye in any letter case sends that
\* word to the completion service exactly once, never runs the chat node a
\* second time, and reaches END after that one execution whether the call
\* returned a reply or raised.
C21_QuitWordIsSentOnce ==
    /\ [](IsQuitWord(hstart.user_input) =>
             /\ pc # "crashed"
             /\ gsteps <= 1
             /\ (pc = "chat" => gsteps = 0 /\ gcalls = 0)
             /\ (pc \in {"route", "prompt"} => gsteps = 1 /\ gcalls = 1)
             /\ (pc = "prompt" /\ gfails = 0 =>
                    Last(gstate.messages) = AssistantPrefix \o gstate.response)
             /\ (pc = "prompt" /\ gfails = 1 => IsErrorLine(Last(gstate.messages))))
    /\ [](IsQuitWord(hstart.user_input) => <>(pc = "prompt"))

\* The graph was invoked with QUIT pending, the call returned a reply, and
\* the run reached END.
C21_Witness ==
    /\ hstart.user_input = <<"Q", "U", "I", "T">>
    /\ pc = "prompt"
    /\ gsteps = 1
    /\ gcalls = 1
    /\ gfails = 0
    /\ gstate.user_input = None


\* C22: from the empty initial state, after any sequence of process_message
\* calls, the structured history has even length and alternates user,
\* assistant, user, assistant, ..., starting with a user record: two records
\* per successful turn, the assistant's reply right after the user's input.
C22_HistoryAlternates ==
    FromEmpty =>
        /\ Len(hstate.chat_history) % 2 = 0
        /\ Len(hstate.chat_history) = 2 * nOk
        /\ \A i \in 1..Len(hstate.chat_history) :
               hstate.chat_history[i].type
                   = (IF i % 2 = 1 THEN "user" ELSE "assistant")
        /\ (CalledWithInput /\ hlast.ok =>
                LET n == Len(hstate.chat_history)
                IN  /\ hstate.chat_history[n - 1].content = hprev.user_input
                    /\ hstate.chat_history[n].content = hlast.text)

\* Two successful turns from the empty state.
C22_Witness ==
    /\ FromEmpty
    /\ nOk = 2
    /\ nErr = 0
    /\ Len(hstate.chat_history) = 4
    /\ hstate.chat_history[3].type = "user"

\* The line read last is empty after stripping.
EmptyLine == Strip(lastline) = <<>>

SameConversation(a, b) ==
    /\ a.messages = b.messages
    /\ a.chat_history = b.chat_history
    /\ a.response = b.response

\* C23: in a CLI session a line that is empty after stripping causes no
\* completion call and leaves transcript, history and response as they were
\* through the whole turn, and the line displayed for the turn is the line
\* displayed for the previous turn again, "Assistant: No response" when there
\* was no previous turn.
C23_EmptyLineChangesNothing ==
    [][/\ (pc = "prompt" /\ pc' = "chat" /\ Strip(lastline') = <<>> =>
              /\ SameConversation(state', state)
              /\ SameConversation(gstate', state))
       /\ (EmptyLine /\ pc = "chat" =>
              /\ pc' = "route"
              /\ gcalls' = 0
              /\ SameConversation(gstate', state))
       /\ (EmptyLine /\ pc = "route" =>
              /\ pc' = "prompt"
              /\ gcalls = 0
              /\ gsteps = 1
              /\ SameConversation(state', state)
              /\ shown' = (IF shown = None
                           THEN AssistantPrefix \o NoResponse
                           ELSE shown))]_vars

\* The second turn was an empty line after a turn that was answered "yo",
\* and "Assistant: yo" is displayed again.
C23_Witness ==
    /\ pc = "prompt"
    /\ turns = 2
    /\ EmptyLine
    /\ gcalls = 0
    /\ state.messages = <<UserPrefix \o hi, AssistantPrefix \o yo>>
    /\ shown = AssistantPrefix \o yo

\* C24: _display_response prints "Assistant: <response>" for a non-empty
\* response and "Assistant: No response" for None or the empty string, so a
\* successful turn with an empty reply is displayed as "No response" although
\* its transcript line is "Assistant: ".
C24_EmptyResponseShownAsNoResponse ==
    pc = "prompt" /\ turns > 0 =>
        /\ (state.response \notin {None, <<>>} =>
                shown = AssistantPrefix \o state.response)
        /\ (state.response \in {None, <<>>} =>
                shown = AssistantPrefix \o NoResponse)
        /\ (gcalls = 1 /\ gfails = 0 /\ state.response = <<>> =>
                /\ Last(state.messages) = AssistantPrefix
                /\ shown # Last(state.messages))

\* A turn was answered with the empty string.
C24_Witness ==
    /\ pc = "prompt"
    /\ gcalls = 1
    /\ gfails = 0
    /\ state.response = <<>>
    /\ Last(state.messages) = AssistantPrefix
    /\ shown = AssistantPrefix \o NoResponse

\* What str() gives for each of Contents, written out.
Rendered ==
    <<<<>>, yo, <<"N", "o", "n", "e">>, <<"[", "]">>,
      <<"[", "'", "a", "'", "]">>,
      <<"[", "'", "a", "'", ",", " ", "'", "b", "'", "]">>,
      <<"0">>, <<"7">>, <<"4", "2">>,
      <<"F", "a", "l", "s", "e">>, <<"T", "r", "u", "e">>>>

\* The contents that are no str and are falsy: None, [], 0, False.
FalsyContents == {3, 4, 7, 10}

IsStr(v) == \A i \in 1..Len(v) : v[i] \in STRING

\* C25: whenever generate_response returns, it returns a str: a str content
\* unchanged (the empty string included), the string rendering of a truthy
\* content that is no str, and the empty string for None and for any other
\* falsy content that is no str.
C25_GenerateResponseReturnsStr ==
    \A k \in 1..Len(flog) :
        LET r == flog[k].response
            c == Contents[r.content]
            v == flog[k].result.value
        IN  ~flog[k].result.raised =>
                /\ IsStr(v)
                /\ (c.kind = "str" => v = c.val)
                /\ (c.kind # "str" /\ r.content \in FalsyContents => v = <<>>)
                /\ (c.kind # "str" /\ r.content \notin FalsyContents =>
                        v = Rendered[r.content])

\* A call answered with None followed by a call answered with ['a', 'b'].
C25_Witness ==
    /\ Len(flog) = 2
    /\ Contents[flog[1].response.content].kind = "none"
    /\ flog[1].result.value = <<>>
    /\ flog[2].response.content = 6
    /\ flog[2].result.value = Rendered[6]

\* A key is set in the environment of the legacy path.
LegacyKeySet == Truthy(legacy_api_key(env))

\* C26: with an API key set, the legacy chat_node and process_message return
\* states equal in all four fields for every input state and the same
\* completion outcome, and should_continue_chat decides as _should_continue
\* does on every state.
C26_LegacyNodeEquivalent ==
    /\ should_continue_chat(astate) = _should_continue(astate)
    /\ (acall.done /\ LegacyKeySet =>
            LET o == [ok |-> acall.ok, text |-> acall.text]
                new == process_message_lists(acall.before, acall.arg, o)
                legacy == Deref(heap, acall.ret)
            IN  /\ legacy.messages = new.heap[new.state.messages]
                /\ legacy.chat_history = new.heap[new.state.chat_history]
                /\ legacy.user_input = new.state.user_input
                /\ legacy.response = new.state.response
                /\ legacy = process_message(Deref(acall.before, acall.arg), o)
                /\ acall.called = CallsCompletion(acall.arg))

\* With a key set, a second execution of chat_node whose call raised.
C26_Witness ==
    /\ LegacyKeySet
    /\ acall.done
    /\ acalls = 2
    /\ acall.called
    /\ ~acall.ok
    /\ IsErrorLine(Last(heap[acall.ret.messages]))

\* C27: in the legacy path without an API key, every execution of chat_node,
\* with or without a pending input, appends exactly the line "Error:
\* OPENROUTER_API_KEY or OPENAI_API_KEY environment variable not set" to the
\* transcript, sets the response to it, leaves history and pending input as
\* they were and does not contact the completion service; creating the
\* agent neither reads the environment nor raises.
C27_LegacyMissingKeyPerTurn ==
    /\ raised = NoExc
    /\ venv = NotRead
    /\ (acall.done /\ ~LegacyKeySet =>
            LET line == ErrorPrefix \o NotSetMessage
            IN  /\ heap[acall.ret.messages]
                       = Append(acall.before[acall.arg.messages], line)
                /\ acall.ret.response = line
                /\ heap[acall.ret.chat_history]
                       = acall.before[acall.arg.chat_history]
                /\ acall.ret.user_input = acall.arg.user_input
                /\ ~acall.called)

\* Without a key, two executions on a state with no pending input.
C27_Witness ==
    /\ ~LegacyKeySet
    /\ pc = "prompt"
    /\ acall.done
    /\ acalls = 2
    /\ acall.arg.user_input = None
    /\ Last(heap[astate.messages]) = legacy_not_set
    /\ Len(heap[astate.messages]) >= 2

KeysOf(c) == {c[i].key : i \in 1..Len(c)}

\* C28: with max_size >= 1, set with a key that is not present on a full
\* cache removes exactly one entry, the one stored earliest among those
\* present, and then stores the new entry; set with a present key overwrites
\* the value, evicts nothing and leaves the eviction order as it was; get
\* changes neither the contents nor the order.
C28_EvictsOldest ==
    LET before == clast.before
        born == clast.born
        k == clast.key
        gone == KeysOf(before) \ KeysOf(cache)
    IN  /\ (clast.op = "set" /\ cmax >= 1 /\ k \in KeysOf(before) =>
                /\ Len(cache) = Len(before)
                /\ \A i \in 1..Len(before) :
                       /\ cache[i].key = before[i].key
                       /\ (before[i].key = k => cache[i].value = clast.value)
                       /\ (before[i].key # k => cache[i] = before[i])
                /\ cborn = born)
        /\ (clast.op = "set" /\ cmax >= 1 /\ k \notin KeysOf(before) =>
                /\ KeysOf(cache) = (KeysOf(before) \ gone) \cup {k}
                /\ dict_get(cache, k) = clast.value
                /\ \A j \in KeysOf(before) \ gone :
                       /\ dict_get(cache, j) = dict_get(before, j)
                       /\ cborn[j] = born[j]
                /\ \A j \in KeysOf(before) \ gone :
                       cborn[j] < cborn[k]
                /\ (Len(before) < cmax => gone = {})
                /\ (Len(before) = cmax =>
                        /\ Cardinality(gone) = 1
                        /\ \A e \in gone : \A j \in KeysOf(before) :
                               born[e] <= born[j]))
        /\ (clast.op = "get" => cache = before /\ cborn = born)

\* On a cache of two, a was stored first and overwritten third, and the
\* fourth operation stored c and evicted a.
C28_Witness ==
    /\ cmax = 2
    /\ cops = 4
    /\ clast.op = "set"
    /\ clast.key = kc
    /\ clast.before = <<Item(ka, v2), Item(kb, v1)>>
    /\ cache = <<Item(kb, v1), Item(kc, v1)>>
    /\ cstatus[ka] = "evicted"

\* C29: for every max_size >= 0 and after any sequence of set, get and clear
\* the number of stored entries never exceeds max_size.
C29_SizeWithinLimit ==
    /\ Len(cache) <= cmax
    /\ Cardinality(KeysOf(cache)) = Len(cache)

\* A full cache of two after an eviction.
C29_Witness ==
    /\ cmax = 2
    /\ Len(cache) = 2
    /\ clast.op = "set"
    /\ \E k \in Keys : cstatus[k] = "evicted"

\* C30: for every max_size >= 0, set(k, v) completes without raising and a
\* get(k) right after it returns v; get of a key that was never set, was
\* evicted or was set before the last clear returns None, and get never
\* changes the contents.
C30_SetThenGet ==
    /\ (clast.op = "set" =>
            /\ clast.raised = NoExc
            /\ TypedCache_get(cache, clast.key) = clast.value)
    /\ (clast.op = "get" =>
            /\ cache = clast.before
            /\ (cstatus[clast.key] # "stored" => clast.result = None))

---------------------------------------------------------------------------
(* retry_async.                                                            *)

IsCall(ev) == ev.ev = "call"

IsSleep(ev) == ev.ev = "sleep"

\* The invocations of the wrapped function, and the sleeps, in order.
RetryCalls == SelectSeq(rlog, IsCall)

RetrySleeps == SelectSeq(rlog, IsSleep)

RetryOver == rpc \in {"returned", "raised"}

FailedCalls == Cardinality({i \in 1..Len(RetryCalls) : ~RetryCalls[i].ok})

Min(a, b) == IF a < b THEN a ELSE b

\* C31: with max_attempts = n >= 1 the function is invoked until it first
\* succeeds and at most n times; the wrapper returns the result of the first
\* successful attempt with no further invocation, and when all n attempts
\* raise, the wrapper raises the exception of the n-th attempt.
C31_UntilFirstSuccess ==
    rmax >= 1 =>
        /\ Len(RetryCalls) <= rmax
        /\ \A i \in 1..(Len(RetryCalls) - 1) : ~RetryCalls[i].ok
        /\ (rpc = "returned" =>
                /\ RetryCalls # <<>>
                /\ Last(rlog) = Last(RetryCalls)
                /\ Last(RetryCalls).ok
                /\ rout.value = Last(RetryCalls).value)
        /\ (rpc = "raised" =>
                /\ Len(RetryCalls) = rmax
                /\ ~Last(RetryCalls).ok
                /\ rout.exc = Last(RetryCalls).exc)

\* C32: the k-th sleep (k = 0, 1, 2, ...) lasts 2**k seconds and follows the
\* failed attempt with index k, which is not the last allowed one; every
\* attempt but the first follows a sleep; a finished run with f failed
\* attempts out of n allowed has slept min(f, n-1) times.
C32_ExponentialBackoff ==
    /\ \A k \in 1..Len(RetrySleeps) : RetrySleeps[k].secs = 2^(k - 1)
    /\ \A i \in 1..Len(rlog) :
          /\ (IsSleep(rlog[i]) =>
                /\ i > 1
                /\ IsCall(rlog[i-1])
                /\ ~rlog[i-1].ok
                /\ Len(SelectSeq(SubSeq(rlog, 1, i), IsCall)) < rmax)
          /\ (IsCall(rlog[i]) /\ i > 1 => IsSleep(rlog[i-1]))
    /\ (RetryOver /\ rmax >= 1 =>
            Len(RetrySleeps) = Min(FailedCalls, rmax - 1))
    /\ (rmax <= 0 => RetrySleeps = <<>>)

\* Two failed attempts, each followed by its sleep, then a success.
C32_Witness ==
    /\ rpc = "returned"
    /\ FailedCalls = 2
    /\ Len(RetrySleeps) = 2

\* C33: with max_attempts <= 0 the function is never invoked and the wrapper
\* raises RuntimeError("Retry failed without exception"); with
\* max_attempts >= 1 the wrapper never raises that RuntimeError.
C33_RuntimeErrorOnlyWithoutAttempts ==
    /\ (rmax <= 0 =>
            /\ RetryCalls = <<>>
            /\ rpc # "returned"
            /\ (rpc = "raised" =>
                    /\ rout.at = "without_exception"
                    /\ rout.exc = Exc("RuntimeError", WithoutException)))
    /\ (rmax >= 1 => rout.at # "without_exception")

---------------------------------------------------------------------------
(* managed_resource.                                                       *)

\* C34: the resource is active throughout the body of the async-with block
\* and inactive once the block has exited, whether the body completed or
\* raised; an exception raised in the body reaches the caller after the
\* cleanup.
C34_ActiveExactlyInBody ==
    /\ (mpc = "body" => mres.active)
    /\ \A i \in 1..Len(mobs) : mobs[i].active
    /\ (mpc = "exited" =>
            /\ ~mres.active
            /\ mexc = Last(mobs).exc
            /\ (Last(mobs).ev = "raise" => mexc # NoExc))

\* The body read the resource and then raised.
C34_Witness ==
    /\ mpc = "exited"
    /\ Len(mobs) >= 2
    /\ Last(mobs).ev = "raise"
    /\ mexc = Exc("ValueError", boom)

---------------------------------------------------------------------------
(* simple_agent.                                                           *)

\* C35: an invocation of the simple agent graph terminates from every
\* initial state: it never runs out of steps, and when it is over
\* current_task is empty.
C35_EndsWithTaskEmpty ==
    /\ zpc # "crashed"
    /\ (zpc = "end" => zstate.current_task = <<>>)

---------------------------------------------------------------------------
(* Result.map.                                                             *)

\* C36: map called on a COMPLETED result calls func once, on the value, and
\* returns a Result holding func(value) with the same status and message;
\* called on a result of any other status it does not call func and returns
\* a Result with value None and the same status and message.
C36_MapOnlyWhenCompleted ==
    \A i \in 1..Len(plog) :
        LET self == plog[i].self
            func == plog[i].func
            out == plog[i].out
        IN  /\ out.ret.status = self.status
            /\ out.ret.message = self.message
            /\ IF self.status = "COMPLETED"
               THEN /\ out.called = <<self.value>>
                    /\ out.ret.value = call(func, self.value)
               ELSE /\ out.called = <<>>
                    /\ out.ret.value = NoneValue

\* Result(5, COMPLETED).map(str) gave "5", and a FAILED result that holds a
\* value and a message was mapped to None.
C36_Witness ==
    /\ Len(plog) = 2
    /\ plog[1].self = Result(Content("int", 5), "COMPLETED", None)
    /\ plog[1].func = "str"
    /\ plog[1].out.ret.value = Content("str", <<"5">>)
    /\ plog[2].self = Result(Content("str", yo), "FAILED", boom)
    /\ plog[2].out.ret = Result(NoneValue, "FAILED", boom)

===========================================================================
